---- MODULE Spec2Model ----
(***************************************************************************)
(* Content-verification dashboard: the relational store (news_themes,      *)
(* news_articles, learning_items, mcqs, item_relations), the get_db        *)
(* session that wraps every action in one transaction, and the operations  *)
(* of ContentService and of the repositories that change rows.             *)
(*                                                                         *)
(* A session's statements write into the session's own write set; a       *)
(* statement reads the committed rows overlaid with that write set.        *)
(* db.commit() publishes the write set, db.rollback() discards it.         *)
(***************************************************************************)
EXTENDS Integers, FiniteSets, Sequences, TLC

\* ------------------------------------------------------------------ bounds
NumThemes == 3
NumArticles == 2
NumSessions == 2
NumItems == 3
NumMcqs == 3
NumDates == 2
NumNewsThemes == 6
NumKeywords == 1
MaxItems == 41

\* ------------------------------------------------------------ identifiers
\* A NULL foreign key (news_articles.newsThemeId is a nullable column).
NULL == 0

ThemeIds == 1..NumThemes
ThemeRefs == ThemeIds \cup {NULL}
\* The article rows that exist; no operation creates or deletes one.
Articles == 1..NumArticles
\* Ids a caller may pass: the existing rows and one id of no row.
ArticleIds == 1..(NumArticles + 1)
Sessions == 1..NumSessions
Items == 1..NumItems
Mcqs == 1..NumMcqs
McqIds == 1..(NumMcqs + 1)
\* Dates 1..NumDates carry articles; the last date carries none.
Dates == 1..(NumDates + 1)

\* NewsArticle.date of each article: article a is dated ((a - 1) mod NumDates) + 1.
ArticleDate(a) == ((a - 1) % NumDates) + 1

\* The rows of mcqs and item_relations (no operation writes them): MCQs 1
\* and 2 share item 1, MCQ m > 2 has item m - 1, the last item has no MCQ;
\* item 1 is related to article 1, item 2 to articles 1 and 2, the last item
\* to article 1, and item 3 to no article.
McqRows == [m \in Mcqs |-> IF m <= 2 THEN 1 ELSE m - 1]
ItemRelationRows == {<<1, 1>>, <<1, 2>>, <<2, 2>>, <<1, NumItems>>} \cap (Articles \X Items)

\* The rows of news_themes that TrendingRepository marks, and the ids a
\* caller may pass: those and one id of no row.
NewsThemes == 1..NumNewsThemes
NewsThemeIds == 1..(NumNewsThemes + 1)
\* The rows of glossary, and the ids a caller may pass.
Keywords == 1..NumKeywords
KeywordIds == 1..(NumKeywords + 1)
\* article_keywords rows: article_id carries no foreign key.
Links == ArticleIds \X KeywordIds

\* The other columns of the rows, by <<table, id, attribute>>: of an article
\* one that update_article may set and one that it may not, of a keyword
\* both, of an MCQ its text.  A column holds its first value or another.
ArticleFields == {"heading", "date"}
GlossaryFields == {"keyword", "definition"}
McqFields == {"question_text"}
Columns == ({"current_affairs"} \X Articles \X ArticleFields)
               \cup ({"glossary"} \X Keywords \X GlossaryFields)
               \cup ({"mcqs"} \X Mcqs \X McqFields)
Values == {"v0", "v1"}

\* Theme names, as sequences of characters.
ThemeNames == {<<"a">>}
\* The name slot of a theme id that has no row.
NoName == <<>>

\* learning_items.purpose values.
Pool == "article-generated-questions"
Selected == "daily-selected"
Challenge == "daily-challenges"
Unset == "NULL"
Purposes == {Pool, Selected, Challenge, Unset}

\* Keys that a caller of update_article may put in the updates map.
UpdateKeys == {"theme_id", "id"}
allowed_fields == {"heading", "description", "pointed_analysis", "mains_analysis",
                   "prelims_info", "mains_subject", "prelims_subject", "mains_topics",
                   "prelims_topics", "secondary_tag", "sub_topics", "theme_id"}
\* The updates maps tried: any subset of UpdateKeys, theme_id over every
\* reference (NULL included), id over one value.
UpdateMaps == UNION {{u \in [K -> ThemeRefs] : ("id" \in K => u["id"] = 1)} : K \in SUBSET UpdateKeys}

VARIABLES
    themes,          \* committed: ids of the rows of news_themes
    name,            \* committed: news_themes.name, NoName where no row
    theme_id,        \* committed: the theme reference of each article
    purpose,         \* committed: learning_items.purpose of each item
    is_trending,     \* committed: news_themes.isTrending of each row
    col,             \* committed: the other columns, by <<table, id, attribute>>
    article_keywords,\* committed: the rows <<article_id, keyword_id>> of article_keywords
    mcq_li,          \* mcqs.learningItemId of each MCQ row (never written)
    item_relations,  \* item_relations rows <<article, target item>> (never written)
    pc,              \* per session: the statement the session is about to run
    call,            \* per session: the operation called and its arguments
    wr,              \* per session: the uncommitted writes of the transaction
    loc,             \* per session: the local variables of the operation
    out,             \* per session: what the call hands to its caller
    pre,             \* per session: the committed rows when the call began
    session_state,   \* st.session_state of the browser session
    page             \* the page run: where the script is and what it has rendered

dbVars == <<themes, name, theme_id, purpose, is_trending, col, article_keywords>>
staticVars == <<mcq_li, item_relations>>
uiVars == <<session_state, page>>
vars == <<themes, name, theme_id, purpose, is_trending, col, article_keywords,
          mcq_li, item_relations, pc, call, wr, loc, out, pre, session_state, page>>

\* ---------------------------------------------------------------- helpers
Pick(S) == CHOOSE v \in S : TRUE
\* A write-set cell is {} (not written) or {v} (written v).
Overlay(cell, base) == IF cell = {} THEN base ELSE Pick(cell)

NoWrites == [del |-> {},
             name |-> [t \in ThemeIds |-> {}],
             theme_id |-> [a \in Articles |-> {}],
             purpose |-> [i \in Items |-> {}],
             is_trending |-> [t \in NewsThemes |-> {}],
             col |-> [c \in Columns |-> {}],
             article_keywords |-> [l \in Links |-> {}]]
NoLocals == [article_count |-> 0, updated |-> 0, li_ids |-> {}, li_len |-> 0,
             rows |-> {}, queries |-> 0]
NoCall == [op |-> "none", id |-> 0, ref |-> 0, name |-> NoName,
           updates |-> [k \in {} |-> 0], ids |-> {}, date |-> 0, limit |-> 0]
NoOut == [kind |-> "none", success |-> FALSE, error |-> "", count |-> 0]
NoSnapshot == [themes |-> {}, name |-> [t \in ThemeIds |-> NoName],
               theme_id |-> [a \in Articles |-> NULL],
               purpose |-> [i \in Items |-> Unset],
               is_trending |-> [t \in NewsThemes |-> FALSE],
               col |-> [c \in Columns |-> "v0"],
               article_keywords |-> {}]
Snapshot == [themes |-> themes, name |-> name, theme_id |-> theme_id,
             purpose |-> purpose, is_trending |-> is_trending, col |-> col,
             article_keywords |-> article_keywords]

Return(success, error, count) ==
    [kind |-> "return", success |-> success, error |-> error, count |-> count]
Raise(error) ==
    [kind |-> "raise", success |-> FALSE, error |-> error, count |-> 0]

\* What the statements of session s read.
VThemes(s) == themes \ wr[s].del
VName(s) == [t \in ThemeIds |-> IF t \in wr[s].del THEN NoName
                                ELSE Overlay(wr[s].name[t], name[t])]
VThemeId(s) == [a \in Articles |-> Overlay(wr[s].theme_id[a], theme_id[a])]
VPurpose(s) == [i \in Items |-> Overlay(wr[s].purpose[i], purpose[i])]
VTrending(s) == [t \in NewsThemes |-> Overlay(wr[s].is_trending[t], is_trending[t])]
VCol(s) == [c \in Columns |-> Overlay(wr[s].col[c], col[c])]
VLinks(s) == {l \in Links : Overlay(wr[s].article_keywords[l], l \in article_keywords)}

\* ForeignKey("news_themes.id") on the article's theme column (the column
\* the repositories call theme_id): the storage layer rejects a statement
\* that leaves in it a value other than NULL or the id of a row of
\* news_themes.
ForeignKeyOk_NoCheck(s, ref) == TRUE
ForeignKeyOk(s, ref) == ref = NULL \/ ref \in VThemes(s)
\* The same constraint seen from news_themes: a row that an article
\* references cannot be deleted.
Referenced(s, t) == \E a \in Articles : VThemeId(s)[a] = t

\* The row locks of the storage layer, held until the transaction ends.  An
\* UPDATE waits for the rows another open transaction has changed; a
\* statement that sets a reference waits for a transaction that is deleting
\* the row referenced; a DELETE waits for the transactions that have set a
\* reference to the row or are deleting it.  A statement that waits is taken
\* to run when the locks are released.
ArticleRowsFree(s, rows) ==
    \A t \in Sessions \ {s} : \A a \in rows : wr[t].theme_id[a] = {}
ReferenceFree(s, ref) ==
    \A t \in Sessions \ {s} : ref \notin wr[t].del
DeleteFree(s, ref) ==
    \A t \in Sessions \ {s} :
        ref \notin wr[t].del /\ \A a \in Articles : wr[t].theme_id[a] # {ref}

Goto(s, label) == pc' = [pc EXCEPT ![s] = label]
Throw(s, error) ==
    /\ Goto(s, "rollback")
    /\ out' = [out EXCEPT ![s] = Raise(error)]

\* ----------------------------------------------------------------- get_db
\* SessionLocal() hands out a new session: the free one of the least number.
NewSession(s) == pc[s] = "idle" /\ \A t \in Sessions : t < s => pc[t] # "idle"

\* with get_db() as db: a new session, no statement run yet.  Calls run one
\* at a time: a call starts when no other session is inside one.
Enter(s, c, first) ==
    /\ \A t \in Sessions : pc[t] = "idle"
    /\ NewSession(s)
    /\ pc' = [pc EXCEPT ![s] = first]
    /\ call' = [call EXCEPT ![s] = c]
    /\ wr' = [wr EXCEPT ![s] = NoWrites]
    /\ loc' = [loc EXCEPT ![s] = NoLocals]
    /\ out' = [out EXCEPT ![s] = NoOut]
    /\ pre' = [pre EXCEPT ![s] = Snapshot]
    /\ UNCHANGED <<dbVars, staticVars>>

\* ... by a caller that is not a page script, or of which only the call is
\* followed.
Begin(s, c, first) ==
    /\ Enter(s, c, first)
    /\ UNCHANGED uiVars

\* db.commit() after the body ended without an exception, then db.close().
Commit(s) ==
    /\ pc[s] = "commit"
    /\ themes' = VThemes(s)
    /\ name' = VName(s)
    /\ theme_id' = VThemeId(s)
    /\ purpose' = VPurpose(s)
    /\ is_trending' = VTrending(s)
    /\ col' = VCol(s)
    /\ article_keywords' = VLinks(s)
    /\ wr' = [wr EXCEPT ![s] = NoWrites]
    /\ Goto(s, "returned")
    /\ UNCHANGED <<staticVars, uiVars, call, loc, out, pre>>

\* A rollback that publishes the writes made before the exception.
Rollback_Publishes(s) ==
    /\ pc[s] = "rollback"
    /\ themes' = VThemes(s)
    /\ name' = VName(s)
    /\ theme_id' = VThemeId(s)
    /\ purpose' = VPurpose(s)
    /\ is_trending' = VTrending(s)
    /\ col' = VCol(s)
    /\ article_keywords' = VLinks(s)
    /\ wr' = [wr EXCEPT ![s] = NoWrites]
    /\ Goto(s, "returned")
    /\ UNCHANGED <<staticVars, uiVars, call, loc, out, pre>>

\* except Exception: db.rollback(); raise, then db.close().
Rollback(s) ==
    /\ pc[s] = "rollback"
    /\ wr' = [wr EXCEPT ![s] = NoWrites]
    /\ Goto(s, "returned")
    /\ UNCHANGED <<dbVars, staticVars, uiVars, call, loc, out, pre>>

\* The statements of the operations, and the commit.
Statements == {"merge_lookup", "merge_update", "merge_delete",
               "article_query", "article_flush",
               "reassign_query", "reassign_flush",
               "rename_query", "rename_flush",
               "save_query", "save_reset", "save_mark",
               "auto_reset", "auto_query", "auto_mark",
               "similar_query",
               "trending_unset", "trending_set",
               "definition_lookup", "definition_flush",
               "keyword_lookup", "keyword_flush",
               "question_query", "question_flush",
               "link_add", "link_remove",
               "commit"}

\* The storage client fails a statement or the commit (connectivity, a
\* transaction error): the exception leaves the with block.
StorageFailure(s) ==
    /\ pc[s] \in Statements
    /\ Throw(s, "StorageFailure")
    /\ UNCHANGED <<dbVars, staticVars, uiVars, call, wr, loc, pre>>

\* The caller has the result; the session object is gone.
Leave(s) ==
    /\ pc[s] = "returned"
    /\ pc' = [pc EXCEPT ![s] = "idle"]
    /\ call' = [call EXCEPT ![s] = NoCall]
    /\ loc' = [loc EXCEPT ![s] = NoLocals]
    /\ out' = [out EXCEPT ![s] = NoOut]
    /\ pre' = [pre EXCEPT ![s] = NoSnapshot]
    /\ UNCHANGED <<dbVars, staticVars, wr>>

Finish(s) ==
    /\ Leave(s)
    /\ UNCHANGED uiVars

\* ---------------------------------------------- ContentService.merge_themes
CallMerge(s, source_id, target_id) ==
    Begin(s, [NoCall EXCEPT !.op = "merge_themes", !.id = source_id, !.ref = target_id],
          "merge_lookup")

\* len(source["articles"]) of get_theme_with_articles.
ArticlesOf_All(s, t) == Articles
ArticlesOf(s, t) == {a \in Articles : VThemeId(s)[a] = t}

\* A lookup that never reports a missing source.
MergeLookup_NoNotFound(s) ==
    /\ pc[s] = "merge_lookup"
    /\ loc' = [loc EXCEPT ![s].article_count = Cardinality(ArticlesOf(s, call[s].id))]
    /\ Goto(s, "merge_update")
    /\ UNCHANGED <<dbVars, staticVars, uiVars, call, wr, out, pre>>

\* source = theme_repo.get_theme_with_articles(source_theme_id)
MergeLookup(s) ==
    /\ pc[s] = "merge_lookup"
    /\ IF call[s].id \notin VThemes(s)
       THEN /\ out' = [out EXCEPT ![s] = Return(FALSE, "Source theme not found", 0)]
            /\ Goto(s, "commit")
            /\ UNCHANGED loc
       ELSE /\ loc' = [loc EXCEPT ![s].article_count = Cardinality(ArticlesOf(s, call[s].id))]
            /\ Goto(s, "merge_update")
            /\ UNCHANGED out
    /\ UNCHANGED <<dbVars, staticVars, uiVars, call, wr, pre>>

\* UPDATE ... SET theme_id = target WHERE theme_id = source
MergeUpdate(s) ==
    /\ pc[s] = "merge_update"
    /\ LET rows == {a \in Articles : VThemeId(s)[a] = call[s].id} IN
       /\ ArticleRowsFree(s, rows)
       /\ rows # {} => ReferenceFree(s, call[s].ref)
       /\ IF rows # {} /\ ~ForeignKeyOk(s, call[s].ref)
          THEN /\ Throw(s, "IntegrityError")
               /\ UNCHANGED <<wr, loc>>
          ELSE /\ wr' = [wr EXCEPT ![s].theme_id =
                           [a \in Articles |-> IF a \in rows THEN {call[s].ref} ELSE @[a]]]
               /\ loc' = [loc EXCEPT ![s].updated = Cardinality(rows)]
               /\ Goto(s, "merge_delete")
               /\ UNCHANGED out
    /\ UNCHANGED <<dbVars, staticVars, uiVars, call, pre>>

\* A merge that leaves the source row in place.
MergeDelete_KeepsSource(s) ==
    /\ pc[s] = "merge_delete"
    /\ out' = [out EXCEPT ![s] = Return(TRUE, "", loc[s].article_count)]
    /\ Goto(s, "commit")
    /\ UNCHANGED <<dbVars, staticVars, uiVars, call, wr, loc, pre>>

\* A merge that deletes the target row instead of the source row.
MergeDelete_DeletesTarget(s) ==
    /\ pc[s] = "merge_delete"
    /\ IF call[s].ref \in VThemes(s) /\ Referenced(s, call[s].ref)
       THEN /\ Throw(s, "IntegrityError")
            /\ UNCHANGED wr
       ELSE /\ wr' = [wr EXCEPT ![s].del = @ \cup ({call[s].ref} \cap themes)]
            /\ out' = [out EXCEPT ![s] = Return(TRUE, "", loc[s].article_count)]
            /\ Goto(s, "commit")
    /\ UNCHANGED <<dbVars, staticVars, uiVars, call, loc, pre>>

\* DELETE FROM themes WHERE id = source, then the service's success result.
MergeDelete(s) ==
    /\ pc[s] = "merge_delete"
    /\ DeleteFree(s, call[s].id)
    /\ IF call[s].id \in VThemes(s) /\ Referenced(s, call[s].id)
       THEN /\ Throw(s, "IntegrityError")
            /\ UNCHANGED wr
       ELSE /\ wr' = [wr EXCEPT ![s].del = @ \cup ({call[s].id} \cap themes)]
            /\ out' = [out EXCEPT ![s] = Return(TRUE, "", loc[s].article_count)]
            /\ Goto(s, "commit")
    /\ UNCHANGED <<dbVars, staticVars, uiVars, call, loc, pre>>

\* -------------------------------------------- ContentService.update_article
CallUpdateArticle(s, article_id, updates) ==
    Begin(s, [NoCall EXCEPT !.op = "update_article", !.id = article_id, !.updates = updates],
          "article_query")

UpdateArticleQuery(s) ==
    /\ pc[s] = "article_query"
    /\ IF call[s].id \notin Articles
       THEN /\ out' = [out EXCEPT ![s] = Return(FALSE, "Article not found", 0)]
            /\ Goto(s, "commit")
       ELSE /\ Goto(s, "article_flush")
            /\ UNCHANGED out
    /\ UNCHANGED <<dbVars, staticVars, uiVars, call, wr, loc, pre>>

\* An update that sets every key it is given.
AppliedFields_All(updates) == DOMAIN updates
\* for field, value in updates.items(): if field in allowed_fields
AppliedFields(updates) == DOMAIN updates \cap allowed_fields

\* setattr for every allowed field of updates, then db.flush().
UpdateArticleFlush(s) ==
    /\ pc[s] = "article_flush"
    /\ LET u == call[s].updates
           fields == AppliedFields(u)
           sets == "theme_id" \in fields
       IN /\ sets => ArticleRowsFree(s, {call[s].id}) /\ ReferenceFree(s, u["theme_id"])
          /\ IF sets /\ ~ForeignKeyOk(s, u["theme_id"])
             THEN /\ Throw(s, "IntegrityError")
                  /\ UNCHANGED wr
             ELSE /\ wr' = [wr EXCEPT
                      ![s].theme_id[call[s].id] = IF sets THEN {u["theme_id"]} ELSE @,
                      ![s].col = [c \in Columns |->
                                     IF /\ c[1] = "current_affairs" /\ c[2] = call[s].id
                                        /\ c[3] \in fields
                                     THEN {u[c[3]]} ELSE @[c]]]
                  /\ out' = [out EXCEPT ![s] = Return(TRUE, "", 0)]
                  /\ Goto(s, "commit")
    /\ UNCHANGED <<dbVars, staticVars, uiVars, call, loc, pre>>

\* ------------------------------------------ ArticleRepository.reassign_theme
CallReassignTheme(s, article_id, new_theme_id) ==
    Begin(s, [NoCall EXCEPT !.op = "reassign_theme", !.id = article_id, !.ref = new_theme_id],
          "reassign_query")

ReassignThemeQuery(s) ==
    /\ pc[s] = "reassign_query"
    /\ IF call[s].id \notin Articles
       THEN /\ out' = [out EXCEPT ![s] = Return(FALSE, "", 0)]
            /\ Goto(s, "commit")
       ELSE /\ Goto(s, "reassign_flush")
            /\ UNCHANGED out
    /\ UNCHANGED <<dbVars, staticVars, uiVars, call, wr, loc, pre>>

\* article.theme_id = new_theme_id; db.flush()
ReassignThemeFlush(s) ==
    /\ pc[s] = "reassign_flush"
    /\ IF ~ForeignKeyOk(s, call[s].ref)
       THEN /\ Throw(s, "IntegrityError")
            /\ UNCHANGED wr
       ELSE /\ wr' = [wr EXCEPT ![s].theme_id[call[s].id] = {call[s].ref}]
            /\ out' = [out EXCEPT ![s] = Return(TRUE, "", 0)]
            /\ Goto(s, "commit")
    /\ UNCHANGED <<dbVars, staticVars, uiVars, call, loc, pre>>

\* ----------------------------------------- ContentService.update_theme_name
CallUpdateThemeName(s, id, new_name) ==
    Begin(s, [NoCall EXCEPT !.op = "update_theme_name", !.id = id, !.name = new_name],
          "rename_query")

UpdateThemeNameQuery(s) ==
    /\ pc[s] = "rename_query"
    /\ IF call[s].id \notin VThemes(s)
       THEN /\ out' = [out EXCEPT ![s] = Return(FALSE, "Theme not found", 0)]
            /\ Goto(s, "commit")
       ELSE /\ Goto(s, "rename_flush")
            /\ UNCHANGED out
    /\ UNCHANGED <<dbVars, staticVars, uiVars, call, wr, loc, pre>>

\* theme.name = new_name; db.flush()
UpdateThemeNameFlush(s) ==
    /\ pc[s] = "rename_flush"
    /\ wr' = [wr EXCEPT ![s].name[call[s].id] = {call[s].name}]
    /\ out' = [out EXCEPT ![s] = Return(TRUE, "", 0)]
    /\ Goto(s, "commit")
    /\ UNCHANGED <<dbVars, staticVars, uiVars, call, loc, pre>>

\* ------------------------------------------------------ the theme workflow
\* The state of a browser session that has set nothing yet (the defaults of
\* init_session_state), and no page run under way.  A value of session_state
\* that may be None is {} (None) or {v}.
NoSessionState == [selected_trending |-> {}, trending_initialized |-> FALSE,
                   selected_theme_id |-> NULL,
                   current_page |-> 1,
                   success_message |-> {}, error_message |-> {}]
\* at: the statement the script is at; theme_id, limit: the theme shown and
\* the limit of its suggestions; clicked: the button whose click started the
\* run; similar: similar_list; buttons: the merge buttons on the screen;
\* shown: the messages show_messages has displayed in this run; screen: the
\* widgets the last run has left on the screen; save_enabled: the save button
\* of the trending page is among them and enabled; total_items: the rows
\* that match the filters of the list; total_pages, current_page: what
\* render_pagination has computed and read; previous_enabled, next_enabled:
\* its buttons are on the screen and enabled.
NoPage == [at |-> "none", theme_id |-> NULL, limit |-> 0, clicked |-> NULL,
           similar |-> {}, buttons |-> {},
           shown |-> [success |-> {}, error |-> {}],
           screen |-> "none", save_enabled |-> FALSE,
           total_items |-> 0, total_pages |-> 1, current_page |-> 1,
           previous_enabled |-> FALSE, next_enabled |-> FALSE]

\* The tables and the browser session that the operations at hand leave
\* alone: nothing trending, every column at its first value, no link.
RestInit ==
    /\ is_trending = [t \in NewsThemes |-> FALSE]
    /\ col = [c \in Columns |-> "v0"]
    /\ article_keywords = {}
    /\ session_state = NoSessionState
    /\ page = NoPage

SessionsIdle ==
    /\ pc = [s \in Sessions |-> "idle"]
    /\ call = [s \in Sessions |-> NoCall]
    /\ wr = [s \in Sessions |-> NoWrites]
    /\ loc = [s \in Sessions |-> NoLocals]
    /\ out = [s \in Sessions |-> NoOut]
    /\ pre = [s \in Sessions |-> NoSnapshot]

\* Any committed themes and articles that satisfy the foreign key; the quiz
\* items are all in the pool.
Init ==
    /\ themes \in SUBSET ThemeIds
    /\ name \in [ThemeIds -> ThemeNames \cup {NoName}]
    /\ \A t \in ThemeIds : (name[t] = NoName) <=> (t \notin themes)
    /\ theme_id \in [Articles -> ThemeRefs]
    /\ \A a \in Articles : theme_id[a] = NULL \/ theme_id[a] \in themes
    /\ purpose = [i \in Items |-> Pool]
    /\ mcq_li = McqRows
    /\ item_relations = ItemRelationRows
    /\ RestInit
    /\ SessionsIdle

Next ==
    \E s \in Sessions :
        \/ \E a, b \in ThemeIds : CallMerge(s, a, b)
        \/ MergeLookup(s)
        \/ MergeUpdate(s)
        \/ MergeDelete(s)
        \/ \E a \in ArticleIds, u \in UpdateMaps : CallUpdateArticle(s, a, u)
        \/ UpdateArticleQuery(s)
        \/ UpdateArticleFlush(s)
        \/ \E a \in ArticleIds, t \in ThemeIds : CallReassignTheme(s, a, t)
        \/ ReassignThemeQuery(s)
        \/ ReassignThemeFlush(s)
        \/ \E t \in ThemeIds, n \in ThemeNames : CallUpdateThemeName(s, t, n)
        \/ UpdateThemeNameQuery(s)
        \/ UpdateThemeNameFlush(s)
        \/ StorageFailure(s)
        \/ Commit(s)
        \/ Rollback(s)
        \/ Finish(s)

Spec == Init /\ [][Next]_vars

\* ------------------------------------------------ the daily-selection rotators
\* WHERE purpose = 'daily-selected': the rows the reset statement updates.
ResetRows_None(s) == {}
ResetRows(s) == {i \in Items : VPurpose(s)[i] = Selected}

\* WHERE id IN (ids) AND purpose = 'article-generated-questions': the rows
\* the mark statement updates.
MarkRows_NoGuard(s, ids) == ids
MarkRows(s, ids) == {i \in ids : VPurpose(s)[i] = Pool}

\* Query.update(): an UPDATE locks the rows it changes until its transaction
\* ends, and waits for the rows another open transaction has changed (it is
\* taken here to run when they are released).
SetPurpose(s, rows, tag) ==
    /\ \A t \in Sessions \ {s} : \A i \in rows : wr[t].purpose[i] = {}
    /\ wr' = [wr EXCEPT ![s].purpose = [i \in Items |-> IF i \in rows THEN {tag} ELSE @[i]]]

\* --------------------------------------- QuestionRepository.save_daily_selected
CallSaveDailySelected(s, mcq_ids) ==
    Begin(s, [NoCall EXCEPT !.op = "save_daily_selected", !.ids = mcq_ids], "save_query")

\* selected_li_ids: one learning_item_id per MCQ row whose id is in mcq_ids.
\* li_ids is the set of its values, li_len the length of the list.
SaveDailyQuery(s) ==
    /\ pc[s] = "save_query"
    /\ LET rows == call[s].ids \cap Mcqs IN
       loc' = [loc EXCEPT ![s].li_ids = {mcq_li[m] : m \in rows},
                          ![s].li_len = Cardinality(rows)]
    /\ Goto(s, "save_reset")
    /\ UNCHANGED <<dbVars, staticVars, uiVars, call, wr, out, pre>>

SaveDailyReset(s) ==
    /\ pc[s] = "save_reset"
    /\ SetPurpose(s, ResetRows(s), Pool)
    /\ Goto(s, "save_mark")
    /\ UNCHANGED <<dbVars, staticVars, uiVars, call, loc, out, pre>>

\* if selected_li_ids: mark; return len(selected_li_ids)
SaveDailyMark(s) ==
    /\ pc[s] = "save_mark"
    /\ IF loc[s].li_len > 0
       THEN SetPurpose(s, MarkRows(s, loc[s].li_ids), Selected)
       ELSE UNCHANGED wr
    /\ out' = [out EXCEPT ![s] = Return(TRUE, "", loc[s].li_len)]
    /\ Goto(s, "commit")
    /\ UNCHANGED <<dbVars, staticVars, uiVars, call, loc, pre>>

\* ------------------------------- TrendingRepository.auto_select_daily_questions
CallAutoSelect(s, target_date) ==
    Begin(s, [NoCall EXCEPT !.op = "auto_select_daily_questions", !.date = target_date],
          "auto_reset")

AutoSelectReset(s) ==
    /\ pc[s] = "auto_reset"
    /\ SetPurpose(s, ResetRows(s), Pool)
    /\ Goto(s, "auto_query")
    /\ UNCHANGED <<dbVars, staticVars, uiVars, call, loc, out, pre>>

\* A join that forgets the filter on the article's date.
ItemsOfDate_AnyDate(d) ==
    {i \in Items : /\ \E m \in Mcqs : mcq_li[m] = i
                   /\ \E a \in Articles : <<a, i>> \in item_relations}

\* The items of the MCQs joined through item_relations to an article.
ItemsOfDate(d) ==
    {i \in Items : /\ \E m \in Mcqs : mcq_li[m] = i
                   /\ \E a \in Articles : <<a, i>> \in item_relations /\ ArticleDate(a) = d}

\* A query that reads the tags as they were before the reset.
AutoSelectQuery_BeforeReset(s) ==
    /\ pc[s] = "auto_query"
    /\ LET today == {i \in ItemsOfDate(call[s].date) : purpose[i] = Pool} IN
       loc' = [loc EXCEPT ![s].li_ids = today, ![s].li_len = Cardinality(today)]
    /\ Goto(s, "auto_mark")
    /\ UNCHANGED <<dbVars, staticVars, uiVars, call, wr, out, pre>>

\* today_li_ids: the distinct items of the target date that are in the pool.
AutoSelectQuery(s) ==
    /\ pc[s] = "auto_query"
    /\ LET today == {i \in ItemsOfDate(call[s].date) : VPurpose(s)[i] = Pool} IN
       loc' = [loc EXCEPT ![s].li_ids = today, ![s].li_len = Cardinality(today)]
    /\ Goto(s, "auto_mark")
    /\ UNCHANGED <<dbVars, staticVars, uiVars, call, wr, out, pre>>

\* if li_ids: mark; return len(li_ids)
AutoSelectMark(s) ==
    /\ pc[s] = "auto_mark"
    /\ IF loc[s].li_len > 0
       THEN SetPurpose(s, MarkRows(s, loc[s].li_ids), Selected)
       ELSE UNCHANGED wr
    /\ out' = [out EXCEPT ![s] = Return(TRUE, "", loc[s].li_len)]
    /\ Goto(s, "commit")
    /\ UNCHANGED <<dbVars, staticVars, uiVars, call, loc, pre>>

\* Any purpose for every learning item; every theme exists and no article
\* has one.
InitRotate ==
    /\ themes = ThemeIds
    /\ name = [t \in ThemeIds |-> <<"a">>]
    /\ theme_id = [a \in Articles |-> NULL]
    /\ purpose \in [Items -> Purposes]
    /\ mcq_li = McqRows
    /\ item_relations = ItemRelationRows
    /\ RestInit
    /\ SessionsIdle

NextRotate ==
    \E s \in Sessions :
        \/ \E ids \in SUBSET McqIds : CallSaveDailySelected(s, ids)
        \/ SaveDailyQuery(s)
        \/ SaveDailyReset(s)
        \/ SaveDailyMark(s)
        \/ \E d \in Dates : CallAutoSelect(s, d)
        \/ AutoSelectReset(s)
        \/ AutoSelectQuery(s)
        \/ AutoSelectMark(s)
        \/ StorageFailure(s)
        \/ Commit(s)
        \/ Rollback(s)
        \/ Finish(s)

SpecRotate == InitRotate /\ [][NextRotate]_vars

\* ------------------------------------------------- a rotation run twice
\* The caller of the rotation that session s has returned from runs it once
\* more with the same argument, in a new session t, before anything else
\* runs.  The later of two sessions has the greater number.
RotateAgain(t, s) ==
    /\ s < t
    /\ pc[s] = "returned" /\ out[s].kind = "return"
    /\ call[s].op \in {"save_daily_selected", "auto_select_daily_questions"}
    /\ \A u \in Sessions \ {s} : pc[u] = "idle"
    /\ NewSession(t)
    /\ pc' = [pc EXCEPT ![t] = IF call[s].op = "save_daily_selected"
                               THEN "save_query" ELSE "auto_reset"]
    /\ call' = [call EXCEPT ![t] = call[s]]
    /\ wr' = [wr EXCEPT ![t] = NoWrites]
    /\ loc' = [loc EXCEPT ![t] = NoLocals]
    /\ out' = [out EXCEPT ![t] = NoOut]
    /\ pre' = [pre EXCEPT ![t] = Snapshot]
    /\ UNCHANGED <<dbVars, staticVars, uiVars>>

NextTwice ==
    \/ NextRotate
    \/ \E s \in Sessions : \E t \in Sessions : RotateAgain(t, s)

SpecTwice == InitRotate /\ [][NextTwice]_vars

\* ------------------------------------------------ concurrent rotations
\* The requests of the concurrent runs: the id lists of at most one id, and
\* the dates.
RotationCalls ==
    {[NoCall EXCEPT !.op = "save_daily_selected", !.ids = ids] :
        ids \in {x \in SUBSET McqIds : Cardinality(x) <= 1}}
    \cup {[NoCall EXCEPT !.op = "auto_select_daily_questions", !.date = d] : d \in Dates}

\* A rotation is triggered while at most one other call is running: each
\* has its own session and transaction.  No snapshot of the tables is kept
\* for these runs.
StartRotation(s, c) ==
    /\ NewSession(s)
    /\ Cardinality({t \in Sessions : pc[t] # "idle"}) <= 1
    /\ pc' = [pc EXCEPT ![s] = IF c.op = "save_daily_selected"
                               THEN "save_query" ELSE "auto_reset"]
    /\ call' = [call EXCEPT ![s] = c]
    /\ wr' = [wr EXCEPT ![s] = NoWrites]
    /\ loc' = [loc EXCEPT ![s] = NoLocals]
    /\ out' = [out EXCEPT ![s] = NoOut]
    /\ UNCHANGED <<dbVars, staticVars, uiVars, pre>>

NextConcurrent ==
    \E s \in Sessions :
        \/ \E c \in RotationCalls : StartRotation(s, c)
        \/ SaveDailyQuery(s)
        \/ SaveDailyReset(s)
        \/ SaveDailyMark(s)
        \/ AutoSelectReset(s)
        \/ AutoSelectQuery(s)
        \/ AutoSelectMark(s)
        \/ StorageFailure(s)
        \/ Commit(s)
        \/ Rollback(s)
        \/ Finish(s)

\* Every learning item is in the pool or selected.
InitConcurrent == InitRotate /\ purpose \in [Items -> {Pool, Selected}]

SpecConcurrent == InitConcurrent /\ [][NextConcurrent]_vars

\* ------------------------------------- ThemeRepository.find_similar_themes
\* Names are sequences of characters.  The largest limit tried.
MaxLimit == 2
Limits == 0..MaxLimit
\* The names of the stored themes, and the names asked about: those, the
\* empty name, a blank one, one of two tokens after a blank, and one whose
\* token is an underscore.
StoredNames == {<<"a", "b">>, <<"A">>, <<"b">>}
AskedNames == StoredNames \cup {<<>>, <<" ">>, <<" ", "A", " ", "b">>, <<"_">>}

isspace(c) == c = " "
lower(c) == IF c = "A" THEN "a" ELSE c

RECURSIVE lstrip(_)
lstrip(str) ==
    IF str = <<>> THEN <<>>
    ELSE IF isspace(Head(str)) THEN lstrip(Tail(str)) ELSE str
RECURSIVE word(_)
word(str) ==
    IF str = <<>> \/ isspace(Head(str)) THEN <<>>
    ELSE <<Head(str)>> \o word(Tail(str))
\* str.split(): the maximal runs of characters that are not whitespace.
RECURSIVE split(_)
split(str) ==
    LET rest == lstrip(str) IN
    IF rest = <<>> THEN <<>>
    ELSE <<word(rest)>> \o split(SubSeq(rest, Len(word(rest)) + 1, Len(rest)))

\* str ILIKE pattern: % stands for any run of characters, _ for any one
\* character, any other character for itself in either case.
RECURSIVE ilike(_, _)
ilike(str, pattern) ==
    IF pattern = <<>> THEN str = <<>>
    ELSE IF Head(pattern) = "%"
         THEN ilike(str, Tail(pattern)) \/ (str # <<>> /\ ilike(Tail(str), pattern))
         ELSE /\ str # <<>>
              /\ Head(pattern) = "_" \/ lower(Head(pattern)) = lower(Head(str))
              /\ ilike(Tail(str), Tail(pattern))

\* A query that forgets the filter on exclude_id.
SimilarRows_KeepsExcluded(s, first_word, exclude_id) ==
    {t \in VThemes(s) : ilike(VName(s)[t], <<"%">> \o first_word \o <<"%">>)}

\* WHERE name ILIKE '%<words[0]>%' [AND id != exclude_id]
SimilarRows(s, first_word, exclude_id) ==
    {t \in VThemes(s) : /\ ilike(VName(s)[t], <<"%">> \o first_word \o <<"%">>)
                        /\ exclude_id # NULL => t # exclude_id}

CallFindSimilar(s, theme_name, exclude_id, limit) ==
    Begin(s, [NoCall EXCEPT !.op = "find_similar_themes", !.name = theme_name,
                            !.id = exclude_id, !.limit = limit],
          "similar_split")

\* A split whose result is not tested: a name without tokens is searched
\* with the empty token.
FindSimilarSplit_NoTest(s) ==
    /\ pc[s] = "similar_split"
    /\ Goto(s, "similar_query")
    /\ UNCHANGED <<dbVars, staticVars, uiVars, call, wr, loc, out, pre>>

\* words = theme_name.split(); if not words: return []
FindSimilarSplit(s) ==
    /\ pc[s] = "similar_split"
    /\ IF split(call[s].name) = <<>>
       THEN /\ out' = [out EXCEPT ![s] = Return(TRUE, "", 0)]
            /\ Goto(s, "commit")
       ELSE /\ Goto(s, "similar_query")
            /\ UNCHANGED out
    /\ UNCHANGED <<dbVars, staticVars, uiVars, call, wr, loc, pre>>

\* query.limit(limit).all(): with no ORDER BY, any limit of the matching
\* rows.
FindSimilarQuery(s) ==
    /\ pc[s] = "similar_query"
    /\ LET words == split(call[s].name)
           found == SimilarRows(s, IF words = <<>> THEN <<>> ELSE words[1], call[s].id)
           n == IF call[s].limit < Cardinality(found) THEN call[s].limit
                ELSE Cardinality(found) IN
       \E rows \in SUBSET found :
           /\ Cardinality(rows) = n
           /\ loc' = [loc EXCEPT ![s].rows = rows, ![s].queries = @ + 1]
           /\ out' = [out EXCEPT ![s] = Return(TRUE, "", n)]
           /\ Goto(s, "commit")
    /\ UNCHANGED <<dbVars, staticVars, uiVars, call, wr, pre>>

\* Every theme exists, with any of the stored names; no article has a theme.
InitSimilar ==
    /\ themes = ThemeIds
    /\ name \in [ThemeIds -> StoredNames]
    /\ theme_id = [a \in Articles |-> NULL]
    /\ purpose = [i \in Items |-> Pool]
    /\ mcq_li = McqRows
    /\ item_relations = ItemRelationRows
    /\ RestInit
    /\ SessionsIdle

NextSimilar ==
    \E s \in Sessions :
        \/ \E theme_name \in AskedNames : \E exclude_id \in ThemeRefs : \E limit \in Limits :
               CallFindSimilar(s, theme_name, exclude_id, limit)
        \/ FindSimilarSplit(s)
        \/ FindSimilarQuery(s)
        \/ StorageFailure(s)
        \/ Commit(s)
        \/ Rollback(s)
        \/ Finish(s)

SpecSimilar == InitSimilar /\ [][NextSimilar]_vars

\* ------------------------------------ TrendingRepository.save_trending_themes
\* WHERE isTrending = true: the rows the first statement unmarks.
UnsetRows_None(s) == {}
UnsetRows(s) == {t \in NewsThemes : VTrending(s)[t]}

\* Query.update() on news_themes: the rows changed are locked until the
\* transaction ends, and the statement waits for the rows another open
\* transaction has changed.
SetTrending(s, rows, flag) ==
    /\ \A t \in Sessions \ {s} : \A r \in rows : wr[t].is_trending[r] = {}
    /\ wr' = [wr EXCEPT ![s].is_trending =
                  [t \in NewsThemes |-> IF t \in rows THEN {flag} ELSE @[t]]]

\* pages/1_trending.py: with get_db() as db: ...save_trending_themes(ids)
CallSaveTrending(s, trending_theme_ids) ==
    Begin(s, [NoCall EXCEPT !.op = "save_trending_themes", !.ids = trending_theme_ids],
          "trending_unset")

\* Unset all
SaveTrendingUnset(s) ==
    /\ pc[s] = "trending_unset"
    /\ SetTrending(s, UnsetRows(s), FALSE)
    /\ Goto(s, "trending_set")
    /\ UNCHANGED <<dbVars, staticVars, uiVars, call, loc, out, pre>>

\* if trending_theme_ids: set the rows WHERE id IN (trending_theme_ids)
SaveTrendingSet(s) ==
    /\ pc[s] = "trending_set"
    /\ IF call[s].ids # {}
       THEN SetTrending(s, call[s].ids \cap NewsThemes, TRUE)
       ELSE UNCHANGED wr
    /\ out' = [out EXCEPT ![s] = Return(TRUE, "", 0)]
    /\ Goto(s, "commit")
    /\ UNCHANGED <<dbVars, staticVars, uiVars, call, loc, pre>>

\* Any marking of the rows of news_themes; the other tables as in Init.
InitTrending ==
    /\ themes = ThemeIds
    /\ name = [t \in ThemeIds |-> <<"a">>]
    /\ theme_id = [a \in Articles |-> NULL]
    /\ purpose = [i \in Items |-> Pool]
    /\ mcq_li = McqRows
    /\ item_relations = ItemRelationRows
    /\ is_trending \in [NewsThemes -> BOOLEAN]
    /\ col = [c \in Columns |-> "v0"]
    /\ article_keywords = {}
    /\ session_state = NoSessionState
    /\ page = NoPage
    /\ SessionsIdle

NextTrending ==
    \E s \in Sessions :
        \/ \E ids \in SUBSET NewsThemeIds : CallSaveTrending(s, ids)
        \/ SaveTrendingUnset(s)
        \/ SaveTrendingSet(s)
        \/ StorageFailure(s)
        \/ Commit(s)
        \/ Rollback(s)
        \/ Finish(s)

SpecTrending == InitTrending /\ [][NextTrending]_vars

\* ------------------------------------------------- utils/session_state.py
\* A value of session_state that is truthy: not None and not the empty string.
Truthy(cell) == cell # {} /\ Pick(cell) # ""

\* show_messages(): what it displays ...
Shown(ss) == [success |-> IF Truthy(ss.success_message) THEN ss.success_message ELSE {},
              error |-> IF Truthy(ss.error_message) THEN ss.error_message ELSE {}]
\* ... and the session state it leaves.
show_messages_KeepsMessages(ss) == ss
show_messages(ss) ==
    [ss EXCEPT !.success_message = IF Truthy(@) THEN {} ELSE @,
               !.error_message = IF Truthy(@) THEN {} ELSE @]
set_success(ss, message) == [ss EXCEPT !.success_message = {message}]
set_error(ss, message) == [ss EXCEPT !.error_message = {message}]

\* ------------------------- the merge suggestions of pages/1_themes.py, app.py
\* The scripts that offer merges, and the limit each passes: the themes page
\* the default of find_similar_themes, the main page its own.
DefaultLimit == 5
MainPageLimit == 3
MergePages == {"themes", "app"}
LimitOf(script) == IF script = "themes" THEN DefaultLimit ELSE MainPageLimit

\* A merge button on the screen: <<theme shown, theme suggested>>.  The key
\* of a button of the themes page names the suggested theme only.
NoClick == <<NULL, NULL>>
Clicked(script, click, theme, sim) ==
    /\ click # NoClick
    /\ click[2] = sim
    /\ script = "app" => click[1] = theme

\* The themes the script shows the suggestions of: the theme selected in the
\* list (themes page), a theme of one of the articles listed (main page, of
\* whose expanders the run followed is one).
ThemeShown(script) ==
    IF script = "themes"
    THEN {session_state.selected_theme_id} \ {NULL}
    ELSE {theme_id[a] : a \in Articles} \ {NULL}

\* Themes page: a click on a theme of the list.  The run shows the messages,
\* stores the selection and reruns.
ThemesPageSelect(t) ==
    /\ page.at = "none"
    /\ \A s \in Sessions : pc[s] = "idle"
    /\ t \in themes
    /\ session_state' = [show_messages(session_state) EXCEPT !.selected_theme_id = t]
    /\ page' = [NoPage EXCEPT !.shown = Shown(session_state)]
    /\ UNCHANGED <<dbVars, staticVars, pc, call, wr, loc, out, pre>>

\* A run of the script, started by a click on one of the merge buttons on
\* the screen or by something else: show_messages(), then the theme is read
\* and find_similar_themes(theme_name, exclude_id=theme_id[, limit]) called
\* in one session.
MergePageOpen(s, script, t, click) ==
    /\ page.at = "none"
    /\ t \in ThemeShown(script)
    /\ click \in page.buttons \cup {NoClick}
    /\ session_state' = show_messages(session_state)
    /\ IF t \in themes
       THEN /\ Enter(s, [NoCall EXCEPT !.op = "find_similar_themes", !.name = name[t],
                                       !.id = t, !.limit = LimitOf(script)],
                     "similar_split")
            /\ page' = [NoPage EXCEPT !.at = script, !.theme_id = t, !.clicked = click,
                                      !.limit = LimitOf(script),
                                      !.shown = Shown(session_state)]
       ELSE /\ \A u \in Sessions : pc[u] = "idle"
            /\ page' = [NoPage EXCEPT !.shown = Shown(session_state)]
            /\ UNCHANGED <<dbVars, staticVars, pc, call, wr, loc, out, pre>>

\* similar_list = [{"id": s.id, "name": s.name} for s in similar]; an
\* exception of the session ends the run in the script's except clause.
MergePageList(s) ==
    /\ page.at \in MergePages
    /\ call[s].op = "find_similar_themes"
    /\ Leave(s)
    /\ page' = IF out[s].kind = "return"
               THEN [page EXCEPT !.at = "merge_" \o @, !.similar = loc[s].rows]
               ELSE [NoPage EXCEPT !.shown = page.shown]
    /\ UNCHANGED session_state

ScriptAt(at) == IF at \in {"themes", "merge_themes", "merging_themes"} THEN "themes" ELSE "app"
ButtonsOf(p) == {<<p.theme_id, sim>> : sim \in p.similar}

\* for sim in similar_list: if st.button("Merge", key=...): no button of the
\* list was clicked, the run ends with the buttons on the screen.
MergePageRendered ==
    /\ page.at \in {"merge_themes", "merge_app"}
    /\ \A sim \in page.similar :
           ~Clicked(ScriptAt(page.at), page.clicked, page.theme_id, sim)
    /\ page' = [NoPage EXCEPT !.buttons = ButtonsOf(page), !.shown = page.shown]
    /\ UNCHANGED <<dbVars, staticVars, session_state, pc, call, wr, loc, out, pre>>

\* ... a button of the list was clicked:
\* content_service.merge_themes(UUID(selected_id), sim["id"])
MergePageMerge(s) ==
    /\ page.at \in {"merge_themes", "merge_app"}
    /\ \E sim \in page.similar :
           /\ Clicked(ScriptAt(page.at), page.clicked, page.theme_id, sim)
           /\ Enter(s, [NoCall EXCEPT !.op = "merge_themes", !.id = page.theme_id,
                                      !.ref = sim],
                    "merge_lookup")
    /\ page' = [page EXCEPT !.at = "merging_" \o ScriptAt(@)]
    /\ UNCHANGED session_state

\* if result["success"]: set_success(...); selection = None; st.rerun().
\* Otherwise the loop goes on to the end of the run; an exception ends the
\* run in the except clause.
MergePageMerged(s) ==
    /\ page.at \in {"merging_themes", "merging_app"}
    /\ call[s].op = "merge_themes"
    /\ Leave(s)
    /\ IF out[s].kind = "return" /\ out[s].success
       THEN /\ session_state' =
                   [set_success(session_state, "Merged") EXCEPT
                        !.selected_theme_id = IF page.at = "merging_themes" THEN NULL ELSE @]
            /\ page' = [NoPage EXCEPT !.shown = page.shown]
       ELSE /\ page' = [NoPage EXCEPT !.buttons = ButtonsOf(page), !.shown = page.shown]
            /\ UNCHANGED session_state

\* Every theme exists, with any of the stored names; article a has theme a.
InitMergePage ==
    /\ themes = ThemeIds
    /\ name \in [ThemeIds -> StoredNames]
    /\ theme_id = [a \in Articles |-> a]
    /\ purpose = [i \in Items |-> Pool]
    /\ mcq_li = McqRows
    /\ item_relations = ItemRelationRows
    /\ RestInit
    /\ SessionsIdle

NextMergePage ==
    \/ \E t \in ThemeIds : ThemesPageSelect(t)
    \/ MergePageRendered
    \/ \E s \in Sessions :
        \/ \E script \in MergePages : \E t \in ThemeIds : \E click \in ThemeIds \X ThemeIds \cup {NoClick} :
               MergePageOpen(s, script, t, click)
        \/ FindSimilarSplit(s)
        \/ FindSimilarQuery(s)
        \/ MergePageList(s)
        \/ MergePageMerge(s)
        \/ MergeLookup(s)
        \/ MergeUpdate(s)
        \/ MergeDelete(s)
        \/ MergePageMerged(s)
        \/ StorageFailure(s)
        \/ Commit(s)
        \/ Rollback(s)

SpecMergePage == InitMergePage /\ [][NextMergePage]_vars

\* --------------------------------------- a merge and another session's call
\* The calls of the theme workflow that run next to each other: a merge of
\* the first theme into any theme, and an update of the first article's
\* theme (app.py, the article's theme selector).
ThemeCalls ==
    {[NoCall EXCEPT !.op = "merge_themes", !.id = 1, !.ref = u] : u \in ThemeIds}
    \cup {[NoCall EXCEPT !.op = "update_article", !.id = a,
                         !.updates = [k \in {"theme_id"} |-> t]] :
              a \in {1}, t \in ThemeRefs}

\* A merge is called when no call is running, an update of an article while
\* a merge is running and nothing else: each has its own session and
\* transaction.  No snapshot of the tables is kept for these runs.
StartThemeCall(s, c) ==
    /\ NewSession(s)
    /\ IF c.op = "merge_themes"
       THEN \A t \in Sessions : pc[t] = "idle"
       ELSE \E t \in Sessions :
                /\ pc[t] \notin {"idle", "returned"} /\ call[t].op = "merge_themes"
                /\ \A u \in Sessions \ {t} : pc[u] = "idle"
    /\ pc' = [pc EXCEPT ![s] = IF c.op = "merge_themes"
                               THEN "merge_lookup" ELSE "article_query"]
    /\ call' = [call EXCEPT ![s] = c]
    /\ wr' = [wr EXCEPT ![s] = NoWrites]
    /\ loc' = [loc EXCEPT ![s] = NoLocals]
    /\ out' = [out EXCEPT ![s] = NoOut]
    /\ UNCHANGED <<dbVars, staticVars, uiVars, pre>>

\* Every theme exists; every article has the first theme or the second.
InitThemeRace ==
    /\ themes = ThemeIds
    /\ name = [t \in ThemeIds |-> <<"a">>]
    /\ theme_id \in [Articles -> {1, 2}]
    /\ purpose = [i \in Items |-> Pool]
    /\ mcq_li = McqRows
    /\ item_relations = ItemRelationRows
    /\ RestInit
    /\ SessionsIdle

NextThemeRace ==
    \E s \in Sessions :
        \/ \E c \in ThemeCalls : StartThemeCall(s, c)
        \/ MergeLookup(s)
        \/ MergeUpdate(s)
        \/ MergeDelete(s)
        \/ UpdateArticleQuery(s)
        \/ UpdateArticleFlush(s)
        \/ StorageFailure(s)
        \/ Commit(s)
        \/ Rollback(s)
        \/ Finish(s)

SpecThemeRace == InitThemeRace /\ [][NextThemeRace]_vars

\* ------------------------------------------- ContentService.update_definition
\* The new texts travel in the updates field of the call.
CallUpdateDefinition(s, keyword_id, new_definition) ==
    Begin(s, [NoCall EXCEPT !.op = "update_definition", !.id = keyword_id,
                            !.updates = [k \in {"definition"} |-> new_definition]],
          "definition_lookup")

\* keyword = glossary_repo.get_keyword_by_id(keyword_id); if not keyword:
\* return {"success": False, "error": "Keyword not found"}
KeywordLookup(s, at, next) ==
    /\ pc[s] = at
    /\ IF call[s].id \notin Keywords
       THEN /\ out' = [out EXCEPT ![s] = Return(FALSE, "Keyword not found", 0)]
            /\ Goto(s, "commit")
       ELSE /\ Goto(s, next)
            /\ UNCHANGED out
    /\ UNCHANGED <<dbVars, staticVars, uiVars, call, wr, loc, pre>>

\* GlossaryRepository.update_definition / update_keyword: the row is read
\* again and, if found, the attributes named in the call are set and
\* flushed.  Of the service's result the success flag is kept.
KeywordFlush(s, at) ==
    /\ pc[s] = at
    /\ LET u == call[s].updates IN
       wr' = [wr EXCEPT ![s].col = [c \in Columns |->
                  IF c[1] = "glossary" /\ c[2] = call[s].id /\ c[3] \in DOMAIN u
                  THEN {u[c[3]]} ELSE @[c]]]
    /\ out' = [out EXCEPT ![s] = Return(TRUE, "", 0)]
    /\ Goto(s, "commit")
    /\ UNCHANGED <<dbVars, staticVars, uiVars, call, loc, pre>>

UpdateDefinitionLookup(s) == KeywordLookup(s, "definition_lookup", "definition_flush")
UpdateDefinitionFlush(s) == KeywordFlush(s, "definition_flush")

\* ---------------------------------------------- ContentService.update_keyword
CallUpdateKeyword(s, keyword_id, new_keyword, new_definition) ==
    Begin(s, [NoCall EXCEPT !.op = "update_keyword", !.id = keyword_id,
                            !.updates = [k \in {"keyword", "definition"} |->
                                            IF k = "keyword" THEN new_keyword
                                            ELSE new_definition]],
          "keyword_lookup")

UpdateKeywordLookup(s) == KeywordLookup(s, "keyword_lookup", "keyword_flush")
UpdateKeywordFlush(s) == KeywordFlush(s, "keyword_flush")

\* --------------------------------------------- ContentService.update_question
\* The column attributes of the MCQ class.
mcq_attributes == {"id", "created_at", "updated_at", "question_text", "options",
                   "correct_option_ids", "is_multi_select", "learning_item_id",
                   "explanation", "silly_mistake_prone", "question_pattern"}
\* The keys the questions page sends, and the updates maps tried: any subset
\* of a column of the MCQ and two keys of the page, each with a new value.
PageQuestionKeys == {"correct_option", "difficulty", "status", "subject",
                     "max_score", "word_count", "question"}
QuestionKeys == {"question_text", "difficulty", "question"}
QuestionUpdates == UNION {[K -> {"v1"}] : K \in SUBSET QuestionKeys}

CallUpdateQuestion(s, question_id, updates) ==
    Begin(s, [NoCall EXCEPT !.op = "update_question", !.id = question_id,
                            !.updates = updates],
          "question_query")

\* hasattr(question, key)
HasAttr_Any(key) == TRUE
HasAttr(key) == key \in mcq_attributes

\* A query that never reports a missing question.
UpdateQuestionQuery_NoNotFound(s) ==
    /\ pc[s] = "question_query"
    /\ Goto(s, "question_flush")
    /\ UNCHANGED <<dbVars, staticVars, uiVars, call, wr, loc, out, pre>>

\* question = self.get_question_by_id(question_id); without a row the
\* service answers "Question not found".
UpdateQuestionQuery(s) ==
    /\ pc[s] = "question_query"
    /\ IF call[s].id \notin Mcqs
       THEN /\ out' = [out EXCEPT ![s] = Return(FALSE, "Question not found", 0)]
            /\ Goto(s, "commit")
       ELSE /\ Goto(s, "question_flush")
            /\ UNCHANGED out
    /\ UNCHANGED <<dbVars, staticVars, uiVars, call, wr, loc, pre>>

\* for key, value in updates.items(): if hasattr(question, key): setattr;
\* db.flush().  loc.updated counts the keys applied.
UpdateQuestionFlush(s) ==
    /\ pc[s] = "question_flush"
    /\ LET u == call[s].updates
           keys == {k \in DOMAIN u : HasAttr(k)} IN
       /\ wr' = [wr EXCEPT ![s].col = [c \in Columns |->
                     IF c[1] = "mcqs" /\ c[2] = call[s].id /\ c[3] \in keys
                     THEN {u[c[3]]} ELSE @[c]]]
       /\ loc' = [loc EXCEPT ![s].updated = Cardinality(keys)]
    /\ out' = [out EXCEPT ![s] = Return(TRUE, "", 0)]
    /\ Goto(s, "commit")
    /\ UNCHANGED <<dbVars, staticVars, uiVars, call, pre>>

\* ------------------------------------- the single-row updates of the service
\* Every theme but the last exists; no article has a theme; every column
\* holds its first value.
InitUpdates ==
    /\ themes = ThemeIds \ {NumThemes}
    /\ name = [t \in ThemeIds |-> IF t = NumThemes THEN NoName ELSE <<"a">>]
    /\ theme_id = [a \in Articles |-> NULL]
    /\ purpose = [i \in Items |-> Pool]
    /\ mcq_li = McqRows
    /\ item_relations = ItemRelationRows
    /\ RestInit
    /\ SessionsIdle

\* The calls are made on the first row of each table and on an id of no
\* row, with a new value for every column named.
NextUpdates ==
    \E s \in Sessions :
        \/ \E t \in {1, NumThemes} : CallUpdateThemeName(s, t, <<"b">>)
        \/ UpdateThemeNameQuery(s)
        \/ UpdateThemeNameFlush(s)
        \/ \E a \in {1, NumArticles + 1} :
               CallUpdateArticle(s, a, [k \in {"heading"} |-> "v1"])
        \/ UpdateArticleQuery(s)
        \/ UpdateArticleFlush(s)
        \/ \E k \in {1, NumKeywords + 1} : CallUpdateDefinition(s, k, "v1")
        \/ UpdateDefinitionLookup(s)
        \/ UpdateDefinitionFlush(s)
        \/ \E k \in {1, NumKeywords + 1} : CallUpdateKeyword(s, k, "v1", "v1")
        \/ UpdateKeywordLookup(s)
        \/ UpdateKeywordFlush(s)
        \/ \E q \in {1, NumMcqs + 1} :
               CallUpdateQuestion(s, q, [k \in {"question_text"} |-> "v1"])
        \/ UpdateQuestionQuery(s)
        \/ UpdateQuestionFlush(s)
        \/ StorageFailure(s)
        \/ Commit(s)
        \/ Rollback(s)
        \/ Finish(s)

SpecUpdates == InitUpdates /\ [][NextUpdates]_vars


\* ------------------------------------------- update_article, any of its keys
\* The updates maps tried: any subset of an allowed text column, an allowed
\* reference, and two keys outside the allow-list (a column and the primary
\* key), the text with either value.
ArticleUpdateKeys == {"heading", "theme_id", "date", "id"}
ArticleUpdates ==
    UNION {{[k \in K |-> CASE k = "heading" -> v
                           [] k = "theme_id" -> t
                           [] k = "date" -> "v1"
                           [] k = "id" -> 1] : v \in Values, t \in {NULL, 1}} :
              K \in SUBSET ArticleUpdateKeys}

NextArticle ==
    \E s \in Sessions :
        \/ \E a \in ArticleIds, u \in ArticleUpdates : CallUpdateArticle(s, a, u)
        \/ UpdateArticleQuery(s)
        \/ UpdateArticleFlush(s)
        \/ StorageFailure(s)
        \/ Commit(s)
        \/ Rollback(s)
        \/ Finish(s)

SpecArticle == InitUpdates /\ [][NextArticle]_vars

\* ------------------------------------------- update_question, any of its keys
NextQuestion ==
    \E s \in Sessions :
        \/ \E q \in McqIds, u \in QuestionUpdates : CallUpdateQuestion(s, q, u)
        \/ UpdateQuestionQuery(s)
        \/ UpdateQuestionFlush(s)
        \/ StorageFailure(s)
        \/ Commit(s)
        \/ Rollback(s)
        \/ Finish(s)

SpecQuestion == InitUpdates /\ [][NextQuestion]_vars

\* ----------------------------------------------------- pages/1_trending.py
\* The number of themes to select.
TrendingQuota == 5

\* A save button that is never disabled.
SaveDisabled_Never(num_selected) == FALSE
\* disabled=num_selected != 5
SaveDisabled(num_selected) == num_selected # TrendingQuota

\* What starts a run of the script: a checkbox, the save button, the clear
\* button, or anything else (the first load, a filter, a rerun).
TrendingEvents ==
    {[widget |-> "none", theme |-> NULL], [widget |-> "save", theme |-> NULL],
     [widget |-> "clear", theme |-> NULL]}
    \cup {[widget |-> "checkbox", theme |-> t] : t \in NewsThemes}
\* The widgets a user can act on: after st.rerun() none, the run follows at
\* once; after a failed save the save button, rendered before the exception;
\* after a full run the checkboxes, the clear button and the save button
\* unless disabled.
OnScreen(e) ==
    CASE e.widget = "none" -> TRUE
      [] e.widget = "save" -> page.save_enabled
      [] e.widget \in {"clear", "checkbox"} -> page.screen = "trending"

\* toggle_trending(theme_id_str), the on_change callback of a checkbox.
toggle_trending(selected, t) ==
    IF t \in selected THEN selected \ {t} ELSE selected \cup {t}

\* The session state a run works on from its save button on: the callback of
\* the event has run, show_messages() has cleared what it displayed, and on
\* the first load the themes that are trending have been pre-selected.
TrendingLoaded(e) ==
    LET called == IF e.widget = "checkbox"
                  THEN [session_state EXCEPT
                            !.selected_trending = toggle_trending(@, e.theme)]
                  ELSE session_state
        shown == show_messages(called)
    IN IF shown.trending_initialized THEN shown
       ELSE [shown EXCEPT !.selected_trending = {t \in NewsThemes : is_trending[t]},
                          !.trending_initialized = TRUE]

\* A run of the script.  A click on the save button calls
\* save_trending_themes([UUID(tid) for tid in selected]) in a session of its
\* own; a click on the clear button empties the selection and reruns; any
\* other run renders the page.
TrendingPageRun(s, e) ==
    /\ page.at = "none"
    /\ e \in TrendingEvents /\ OnScreen(e)
    /\ LET ss == TrendingLoaded(e)
           shown == Shown(session_state)
       IN CASE e.widget = "save" ->
                  /\ session_state' = ss
                  /\ page' = [NoPage EXCEPT !.at = "trending_saving", !.shown = shown]
                  /\ Enter(s, [NoCall EXCEPT !.op = "save_trending_themes",
                                             !.ids = ss.selected_trending],
                           "trending_unset")
            [] e.widget = "clear" ->
                  /\ session_state' = [ss EXCEPT !.selected_trending = {}]
                  /\ page' = [NoPage EXCEPT !.screen = "rerun", !.shown = shown]
                  /\ NewSession(s) /\ \A u \in Sessions : pc[u] = "idle"
                  /\ UNCHANGED <<dbVars, staticVars, pc, call, wr, loc, out, pre>>
            [] OTHER ->
                  /\ session_state' = ss
                  /\ page' = [NoPage EXCEPT
                                 !.screen = "trending", !.shown = shown,
                                 !.save_enabled =
                                     ~SaveDisabled(Cardinality(ss.selected_trending))]
                  /\ NewSession(s) /\ \A u \in Sessions : pc[u] = "idle"
                  /\ UNCHANGED <<dbVars, staticVars, pc, call, wr, loc, out, pre>>

\* The with block of the save has been left: set_success(...) and
\* st.rerun(), or the exception ends the run in the script's except clause.
TrendingPageSaved(s) ==
    /\ page.at = "trending_saving"
    /\ call[s].op = "save_trending_themes"
    /\ Leave(s)
    /\ IF out[s].kind = "return"
       THEN /\ session_state' = set_success(session_state, "Trending themes saved!")
            /\ page' = [NoPage EXCEPT !.screen = "rerun", !.shown = page.shown]
       ELSE /\ page' = [NoPage EXCEPT !.screen = "save", !.save_enabled = TRUE,
                                      !.shown = page.shown]
            /\ UNCHANGED session_state

\* The user opens the dashboard in a new browser session.
NewBrowserSession ==
    /\ page.at = "none"
    /\ \A s \in Sessions : pc[s] = "idle"
    /\ session_state # NoSessionState
    /\ session_state' = NoSessionState
    /\ page' = NoPage
    /\ UNCHANGED <<dbVars, staticVars, pc, call, wr, loc, out, pre>>

NextTrendingPage ==
    \/ NewBrowserSession
    \/ \E s \in Sessions :
        \/ \E e \in TrendingEvents : TrendingPageRun(s, e)
        \/ SaveTrendingUnset(s)
        \/ SaveTrendingSet(s)
        \/ TrendingPageSaved(s)
        \/ StorageFailure(s)
        \/ Commit(s)
        \/ Rollback(s)

\* No theme is trending (the default of the column) and nothing is selected.
SpecTrendingPage == InitUpdates /\ [][NextTrendingPage]_vars

\* --------------------- ContentService.add_keyword_to_article / remove_keyword
CallAddKeyword(s, article_uuid, keyword_id) ==
    Begin(s, [NoCall EXCEPT !.op = "add_keyword_to_article", !.id = article_uuid,
                            !.ref = keyword_id],
          "link_add")

\* db.add(ArticleKeyword(article_id, keyword_id)); db.flush(): the INSERT is
\* rejected for a second row with the same primary key and for a keyword_id
\* that is no row of glossary.
AddKeywordFlush(s) ==
    /\ pc[s] = "link_add"
    /\ LET link == <<call[s].id, call[s].ref>> IN
       IF link \in VLinks(s) \/ call[s].ref \notin Keywords
       THEN /\ Throw(s, "IntegrityError")
            /\ UNCHANGED wr
       ELSE /\ wr' = [wr EXCEPT ![s].article_keywords[link] = {TRUE}]
            /\ out' = [out EXCEPT ![s] = Return(TRUE, "", 0)]
            /\ Goto(s, "commit")
    /\ UNCHANGED <<dbVars, staticVars, uiVars, call, loc, pre>>

CallRemoveKeyword(s, article_uuid, keyword_id) ==
    Begin(s, [NoCall EXCEPT !.op = "remove_keyword_from_article", !.id = article_uuid,
                            !.ref = keyword_id],
          "link_remove")

\* A delete that forgets the filter on article_id.
LinkRows_OfKeyword(s, article_uuid, keyword_id) ==
    {l \in VLinks(s) : l[2] = keyword_id}
\* WHERE article_id = article_uuid AND keyword_id = keyword_id
LinkRows(s, article_uuid, keyword_id) ==
    {l \in VLinks(s) : l[1] = article_uuid /\ l[2] = keyword_id}

\* deleted = query.delete(); return deleted > 0, which the service hands on
\* as success.
RemoveKeywordDelete(s) ==
    /\ pc[s] = "link_remove"
    /\ LET rows == LinkRows(s, call[s].id, call[s].ref) IN
       /\ wr' = [wr EXCEPT ![s].article_keywords =
                     [l \in Links |-> IF l \in rows THEN {FALSE} ELSE @[l]]]
       /\ out' = [out EXCEPT ![s] = Return(Cardinality(rows) > 0, "", Cardinality(rows))]
    /\ Goto(s, "commit")
    /\ UNCHANGED <<dbVars, staticVars, uiVars, call, loc, pre>>

\* The caller of the add that session s has returned from removes the same
\* keyword from the same article, in a new session t, before anything else
\* runs: the tables are as the add has left them.
RemoveAgain(t, s) ==
    /\ s < t
    /\ pc[s] = "returned" /\ call[s].op = "add_keyword_to_article"
    /\ out[s].kind = "return"
    /\ Snapshot = [pre[s] EXCEPT !.article_keywords = @ \cup {<<call[s].id, call[s].ref>>}]
    /\ \A u \in Sessions \ {s} : pc[u] = "idle"
    /\ NewSession(t)
    /\ pc' = [pc EXCEPT ![t] = "link_remove"]
    /\ call' = [call EXCEPT ![t] = [call[s] EXCEPT !.op = "remove_keyword_from_article"]]
    /\ wr' = [wr EXCEPT ![t] = NoWrites]
    /\ loc' = [loc EXCEPT ![t] = NoLocals]
    /\ out' = [out EXCEPT ![t] = NoOut]
    /\ pre' = [pre EXCEPT ![t] = Snapshot]
    /\ UNCHANGED <<dbVars, staticVars, uiVars>>

\* Any links of articles to the keywords of the glossary.
InitLinks ==
    /\ themes = ThemeIds
    /\ name = [t \in ThemeIds |-> <<"a">>]
    /\ theme_id = [a \in Articles |-> NULL]
    /\ purpose = [i \in Items |-> Pool]
    /\ mcq_li = McqRows
    /\ item_relations = ItemRelationRows
    /\ is_trending = [t \in NewsThemes |-> FALSE]
    /\ col = [c \in Columns |-> "v0"]
    /\ article_keywords \in SUBSET (ArticleIds \X Keywords)
    /\ session_state = NoSessionState
    /\ page = NoPage
    /\ SessionsIdle

NextLinks ==
    \/ \E s, t \in Sessions : RemoveAgain(t, s)
    \/ \E s \in Sessions :
        \/ \E a \in ArticleIds, k \in KeywordIds : CallAddKeyword(s, a, k)
        \/ AddKeywordFlush(s)
        \/ \E a \in ArticleIds, k \in KeywordIds : CallRemoveKeyword(s, a, k)
        \/ RemoveKeywordDelete(s)
        \/ StorageFailure(s)
        \/ Commit(s)
        \/ Rollback(s)
        \/ Finish(s)

SpecLinks == InitLinks /\ [][NextLinks]_vars

\* ------------------------------ components/sidebar.py: render_pagination
DEFAULT_PAGE_SIZE == 20
\* max(1, (total_items + page_size - 1) // page_size)
TotalPages(total_items, page_size) ==
    LET pages == (total_items + page_size - 1) \div page_size
    IN IF pages > 1 THEN pages ELSE 1

\* What starts a run of a list page and the number of rows its filters then
\* match: a click on Previous or Next or a run for any other reason (the
\* rows match as before), a change of the search text or of a date of the
\* sidebar, a click on a filter button.
PaginationEvents ==
    {[widget |-> w, total_items |-> page.total_items] : w \in {"none", "previous", "next"}}
    \cup {[widget |-> w, total_items |-> n] : w \in {"search", "filter"}, n \in 0..MaxItems}
PaginationOnScreen(e) ==
    CASE e.widget = "previous" -> page.previous_enabled
      [] e.widget = "next" -> page.next_enabled
      [] OTHER -> TRUE

\* st.session_state.current_page = 1; st.rerun() of the filter buttons; the
\* search input and the dates of the sidebar set nothing.
AfterFilter(ss, e) ==
    IF e.widget = "filter" THEN [ss EXCEPT !.current_page = 1] ELSE ss

\* render_pagination(total_items, page_size) in the run that handles a click
\* on one of its buttons: the page is moved and the script rerun.
AfterClick(ss, e, total_pages) ==
    CASE e.widget = "previous" /\ total_pages > 1 -> [ss EXCEPT !.current_page = @ - 1]
      [] e.widget = "next" /\ total_pages > 1 -> [ss EXCEPT !.current_page = @ + 1]
      [] OTHER -> ss

\* A run of a list page up to the end of the run that renders it:
\* show_messages(), the filters, the query with
\* offset = (current_page - 1) * page_size, render_pagination.
PaginationRun(e) ==
    /\ page.at = "none"
    /\ \A s \in Sessions : pc[s] = "idle"
    /\ e \in PaginationEvents /\ PaginationOnScreen(e)
    /\ LET total_pages == TotalPages(e.total_items, DEFAULT_PAGE_SIZE)
           ss == AfterClick(AfterFilter(show_messages(session_state), e), e, total_pages)
           current_page == ss.current_page
       IN /\ session_state' = ss
          /\ page' = [NoPage EXCEPT
                         !.shown = Shown(session_state), !.screen = "list",
                         !.total_items = e.total_items,
                         !.total_pages = total_pages,
                         !.current_page = current_page,
                         !.previous_enabled = total_pages > 1 /\ ~(current_page <= 1),
                         !.next_enabled = total_pages > 1 /\ ~(current_page >= total_pages)]
    /\ UNCHANGED <<dbVars, staticVars, pc, call, wr, loc, out, pre>>

NextPagination == \E e \in PaginationEvents : PaginationRun(e)

SpecPagination == InitUpdates /\ [][NextPagination]_vars

\* ------------------------------------------------------------ flash messages
\* Every script of the application calls show_messages() at its top (app.py
\* 30, 1_themes.py 23, 1_trending.py 21, 2_articles.py 26, 4_definitions.py
\* 22, 5_questions.py 23) and its save handlers call set_success(...) and then
\* st.rerun(), which ends the run.
FlashScripts ==
    {"app", "1_themes", "1_trending", "2_articles", "4_definitions", "5_questions"}

\* The messages the handlers of a script set; a formatted message stands by
\* its fixed part.
MessagesOf(script) ==
    CASE script = "app" ->
           {"Theme renamed to", "Merged", "Article theme updated!",
            "Pointed Analysis saved!", "Mains Analysis saved!", "Prelims Info saved!"}
      [] script = "1_themes" -> {"Theme name updated!", "Merged"}
      [] script = "1_trending" -> {"Trending themes saved!"}
      [] script = "2_articles" ->
           {"Pointed Analysis saved!", "Mains Analysis saved!", "Prelims Info saved!",
            "Question updated!"}
      [] script = "4_definitions" -> {"Definition saved!"}
      [] script = "5_questions" -> {"Question updated!"}

\* What the user does in a run: nothing that sets a message, or a save whose
\* handler sets one with set_success or set_error.
FlashEvents(script) ==
    {<<"none", "">>} \cup ({"success", "error"} \X MessagesOf(script))

\* One run of a script: show_messages() displays and clears what is pending,
\* then the handler of the event, if any, sets its message and the run ends.
FlashRun(script, e) ==
    LET cleared == show_messages(session_state)
    IN /\ session_state' = CASE e[1] = "success" -> set_success(cleared, e[2])
                             [] e[1] = "error" -> set_error(cleared, e[2])
                             [] OTHER -> cleared
       /\ page' = [NoPage EXCEPT !.at = script, !.clicked = e,
                                 !.shown = Shown(session_state),
                                 !.screen = IF e[1] = "none" THEN "page" ELSE "rerun"]
       /\ UNCHANGED <<dbVars, staticVars, pc, call, wr, loc, out, pre>>

NextMessages == \E script \in FlashScripts : \E e \in FlashEvents(script) : FlashRun(script, e)

SpecMessages == InitUpdates /\ [][NextMessages]_vars

\* ------------------------------------------------------------- properties
\* A call of op that control has left (its transaction has ended).
Ended(s, op) == pc[s] = "returned" /\ call[s].op = op
\* ... and that handed {success: true, ...} to its caller.
Succeeded(s, op) == Ended(s, op) /\ out[s].kind = "return" /\ out[s].success
Source(s) == call[s].id
Target(s) == call[s].ref
PointedAt(rows, t) == {a \in Articles : rows[a] = t}

\* Both themes of the merge existed when it was called, and they differ.
DistinctExisting(s) ==
    /\ Source(s) # Target(s)
    /\ Source(s) \in pre[s].themes
    /\ Target(s) \in pre[s].themes

\* C1: after a successful merge_themes(A, B) of two distinct existing
\* themes, every article that pointed at A points at B, no article points
\* at A, theme A has no row and theme B still has one.
C1_MergeMovesArticlesAndDeletesSource ==
    \A s \in Sessions :
        (Succeeded(s, "merge_themes") /\ DistinctExisting(s)) =>
            /\ \A a \in PointedAt(pre[s].theme_id, Source(s)) : theme_id[a] = Target(s)
            /\ PointedAt(theme_id, Source(s)) = {}
            /\ Source(s) \notin themes
            /\ Target(s) \in themes

C1_Witness ==
    \E s \in Sessions :
        /\ Succeeded(s, "merge_themes") /\ DistinctExisting(s)
        /\ PointedAt(pre[s].theme_id, Source(s)) # {}

\* C2: a successful merge_themes(A, B) of two distinct existing themes
\* returns articles_moved = the number of articles that pointed at A before
\* the call, B then has its previous count plus articles_moved, and the
\* articles of any third theme or of no theme are unchanged.
C2_MergeCountsMovedArticles ==
    \A s \in Sessions :
        (Succeeded(s, "merge_themes") /\ DistinctExisting(s)) =>
            /\ out[s].count = Cardinality(PointedAt(pre[s].theme_id, Source(s)))
            /\ Cardinality(PointedAt(theme_id, Target(s)))
                 = Cardinality(PointedAt(pre[s].theme_id, Target(s))) + out[s].count
            /\ \A a \in Articles :
                 pre[s].theme_id[a] \notin {Source(s), Target(s)} =>
                     theme_id[a] = pre[s].theme_id[a]

C2_Witness ==
    \E s \in Sessions :
        /\ Succeeded(s, "merge_themes") /\ DistinctExisting(s)
        /\ out[s].count = 1
        /\ \E a \in Articles : pre[s].theme_id[a] \in ThemeIds \ {Source(s), Target(s)}

\* C3: merge_themes on a source id that has no row changes no row, whatever
\* the target; the call returns {success: false, error: 'Source theme not
\* found'}, unless the storage client failed it.
C3_MergeOfMissingSourceChangesNothing ==
    \A s \in Sessions :
        (Ended(s, "merge_themes") /\ Source(s) \notin pre[s].themes) =>
            /\ Snapshot = pre[s]
            /\ out[s].kind = "return" =>
                 (~out[s].success /\ out[s].error = "Source theme not found")
            /\ out[s].kind = "raise" => out[s].error = "StorageFailure"

C3_Witness ==
    \E s \in Sessions :
        /\ Ended(s, "merge_themes") /\ Source(s) \notin pre[s].themes
        /\ out[s].kind = "return"
        /\ Target(s) \in themes

\* The committed rows are those of before the call with the merge applied
\* in full.
FullyMerged(s) ==
    /\ themes = pre[s].themes \ {Source(s)}
    /\ theme_id = [a \in Articles |-> IF pre[s].theme_id[a] = Source(s)
                                      THEN Target(s) ELSE pre[s].theme_id[a]]

\* C4: a merge is atomic.  While and after a merge_themes call the
\* committed rows are either those of before the call or those with both
\* the reassignment and the deletion applied; once a step has failed they
\* are those of before the call.
C4_MergeIsAtomic ==
    \A s \in Sessions :
        call[s].op = "merge_themes" =>
            /\ Snapshot = pre[s] \/ FullyMerged(s)
            /\ out[s].kind = "raise" => Snapshot = pre[s]

\* A step failed after one article or more had been reassigned.
C4_Witness ==
    \E s \in Sessions :
        /\ Ended(s, "merge_themes")
        /\ out[s].kind = "raise"
        /\ loc[s].updated > 0

\* C5: merge_themes(source, target) with an existing source and a target
\* that has no row never returns {success: true}, and leaves the source
\* theme and its articles as they were.
C5_MergeIntoMissingTargetFails ==
    \A s \in Sessions :
        (Ended(s, "merge_themes") /\ Source(s) \in pre[s].themes
                                  /\ Target(s) \notin pre[s].themes) =>
            /\ ~(out[s].kind = "return" /\ out[s].success)
            /\ Snapshot = pre[s]

\* C6: merge_themes(A, A) on an existing theme A leaves A in place with
\* every article that pointed at it.
C6_SelfMergeKeepsTheme ==
    \A s \in Sessions :
        (Ended(s, "merge_themes") /\ Source(s) = Target(s)
                                  /\ Source(s) \in pre[s].themes) =>
            /\ Source(s) \in themes
            /\ \A a \in PointedAt(pre[s].theme_id, Source(s)) : theme_id[a] = Source(s)

\* C7: referential integrity.  In every committed state, and in what every
\* open transaction reads, an article's theme reference is NULL or the id
\* of a theme that has a row.
C7_ReferentialIntegrity ==
    /\ \A a \in Articles : theme_id[a] = NULL \/ theme_id[a] \in themes
    /\ \A s \in Sessions : \A a \in Articles :
           VThemeId(s)[a] = NULL \/ VThemeId(s)[a] \in VThemes(s)

\* An article was moved to another existing theme and the move committed.
C7_Witness ==
    \E s \in Sessions :
        /\ Succeeded(s, "update_article") \/ Succeeded(s, "reassign_theme")
        /\ call[s].id \in Articles
        /\ theme_id[call[s].id] \in ThemeIds
        /\ theme_id[call[s].id] # pre[s].theme_id[call[s].id]

Rotators == {"save_daily_selected", "auto_select_daily_questions"}
RotatorUpdates == {"save_reset", "save_mark", "auto_reset", "auto_mark"}
\* A rotation that has returned its count.
Rotated(s) ==
    pc[s] = "returned" /\ call[s].op \in Rotators /\ out[s].kind = "return"
\* The items the call asks for: those of the MCQs named (save_daily_selected)
\* or those related to an article of the date (auto_select_daily_questions).
Requested(s) ==
    IF call[s].op = "save_daily_selected"
    THEN {i \in Items : \E m \in call[s].ids \cap Mcqs : mcq_li[m] = i}
    ELSE {i \in Items : \E a \in Articles :
              <<a, i>> \in item_relations /\ ArticleDate(a) = call[s].date}
SelectedItems(tags) == {i \in Items : tags[i] = Selected}

LegalTagChange(old, new) ==
    \/ new = old
    \/ old = Pool /\ new = Selected
    \/ old = Selected /\ new = Pool

\* C8: the rotators change a tag only from 'article-generated-questions' to
\* 'daily-selected' or back: in every step, of the committed rows and of
\* what a rotator's update statement leaves in its transaction, an item
\* with any other tag keeps it.
C8_OnlyLegalTagTransitions ==
    [][\A i \in Items :
          /\ LegalTagChange(purpose[i], purpose'[i])
          /\ \A s \in Sessions :
                 pc[s] \in RotatorUpdates =>
                     LegalTagChange(VPurpose(s)[i], VPurpose(s)'[i])]_vars

\* A rotation selected an item and was asked for an item with a third tag.
C8_Witness ==
    \E s \in Sessions :
        /\ Rotated(s)
        /\ \E i \in Requested(s) : purpose[i] = Challenge
        /\ \E i \in Requested(s) : purpose[i] = Selected /\ pre[s].purpose[i] = Pool

\* C9: after a rotation, every 'daily-selected' item is one the call asked
\* for, and every item that was selected before and is not asked for is
\* back in the pool.
C9_SelectionBelongsToTheCall ==
    \A s \in Sessions :
        Rotated(s) =>
            /\ SelectedItems(purpose) \subseteq Requested(s)
            /\ \A i \in SelectedItems(pre[s].purpose) \ Requested(s) : purpose[i] = Pool

C9_Witness ==
    \E s \in Sessions :
        /\ Rotated(s)
        /\ SelectedItems(pre[s].purpose) \ Requested(s) # {}
        /\ SelectedItems(purpose) # {}

\* C10: a rotation returns the number of items tagged 'daily-selected'
\* after the call.
C10_ReturnsNumberSelected ==
    \A s \in Sessions :
        Rotated(s) => out[s].count = Cardinality(SelectedItems(purpose))

AutoSelected(s) == Rotated(s) /\ call[s].op = "auto_select_daily_questions"
\* Item i is the learning item of an MCQ and the target of a relation whose
\* source is an article dated d.
McqItemOfDate(i, d) ==
    /\ \E m \in Mcqs : mcq_li[m] = i
    /\ \E a \in Articles : <<a, i>> \in item_relations /\ ArticleDate(a) = d

\* C11: after auto_select_daily_questions(d), an item is 'daily-selected'
\* if and only if it is the learning item of an MCQ related to an article
\* dated d and its tag before the call was 'article-generated-questions' or
\* 'daily-selected'.
C11_AutoSelectsExactlyTheItemsOfTheDate ==
    \A s \in Sessions :
        AutoSelected(s) =>
            \A i \in Items :
                purpose[i] = Selected <=>
                    (McqItemOfDate(i, call[s].date) /\ pre[s].purpose[i] \in {Pool, Selected})

\* The call selected an item that was selected before, and left in the pool
\* an item of an MCQ that is related only to articles of other dates.
C11_Witness ==
    \E s \in Sessions :
        /\ AutoSelected(s)
        /\ \E i \in Items : purpose[i] = Selected /\ pre[s].purpose[i] = Selected
        /\ \E i \in Items :
              /\ \E m \in Mcqs : mcq_li[m] = i
              /\ \E a \in Articles : <<a, i>> \in item_relations
              /\ ~McqItemOfDate(i, call[s].date)
              /\ pre[s].purpose[i] = Pool /\ purpose[i] = Pool

\* No item qualifies, as the claim has it: no MCQ is named by the id list,
\* or no item of the date is in the pool.
NothingInPool(s) ==
    IF call[s].op = "save_daily_selected"
    THEN call[s].ids \cap Mcqs = {}
    ELSE \A i \in Items : McqItemOfDate(i, call[s].date) => pre[s].purpose[i] # Pool
\* No item qualifies: no MCQ is named by the id list, or no item of the date
\* is in the pool or selected.
NothingQualifies(s) ==
    IF call[s].op = "save_daily_selected"
    THEN call[s].ids \cap Mcqs = {}
    ELSE \A i \in Items :
             McqItemOfDate(i, call[s].date) => pre[s].purpose[i] \notin {Pool, Selected}
\* The call reset every selected item, selected none and returned 0.
OnlyReset(s) ==
    /\ out[s].count = 0
    /\ purpose = [i \in Items |-> IF pre[s].purpose[i] = Selected THEN Pool
                                  ELSE pre[s].purpose[i]]

\* C13 as claimed: a rotation for which no item is in the pool (empty id
\* list, unknown MCQ ids, a date with no pool-tagged item) resets every
\* selected item, selects nothing and returns 0.
C13_NothingInPoolOnlyResets ==
    \A s \in Sessions : (Rotated(s) /\ NothingInPool(s)) => OnlyReset(s)

\* C13 as amended: a rotation for which no item qualifies (empty id list,
\* unknown MCQ ids, a date none of whose items is in the pool or selected)
\* resets every selected item, selects nothing and returns 0.
C13_NothingQualifiesOnlyResets ==
    \A s \in Sessions : (Rotated(s) /\ NothingQualifies(s)) => OnlyReset(s)

C13_Witness ==
    \E s \in Sessions :
        /\ AutoSelected(s) /\ NothingQualifies(s)
        /\ \E i \in Items : McqItemOfDate(i, call[s].date)
        /\ SelectedItems(pre[s].purpose) # {}

\* What a rotation commits: the items it found that were in the pool or
\* selected are selected, every other selected item is back in the pool.
RotationApplied(s) ==
    [i \in Items |->
        IF i \in loc[s].li_ids /\ pre[s].purpose[i] \in {Pool, Selected} THEN Selected
        ELSE IF pre[s].purpose[i] = Selected THEN Pool
        ELSE pre[s].purpose[i]]

\* C14: reset and select are one unit of work, reset first.  In every step
\* of a rotation: an item is marked selected only by the mark statement,
\* when the transaction sees no selected item left; the committed tags
\* change only at the commit, to the reset and the selection together; and
\* once a statement has failed they stay those of before the call.
C14_ResetThenSelectInOneTransaction ==
    [][\A s \in Sessions :
          call[s].op \in Rotators =>
              /\ \A i \in Items :
                     (VPurpose(s)'[i] = Selected /\ VPurpose(s)[i] # Selected
                          /\ pc[s] \in Statements \ {"commit"}) =>
                         (pc[s] \in {"save_mark", "auto_mark"} /\ SelectedItems(VPurpose(s)) = {})
              /\ purpose' # purpose =>
                     (pc[s] = "commit" /\ out[s].kind = "return" /\ purpose' = RotationApplied(s))
              /\ out[s].kind = "raise" => (purpose = pre[s].purpose /\ purpose' = purpose)]_vars

\* The select step failed after the reset had moved an item to the pool.
C14_Witness ==
    \E s \in Sessions :
        /\ call[s].op \in Rotators
        /\ pc[s] = "rollback"
        /\ loc[s].li_ids # {}
        /\ \E i \in Items : wr[s].purpose[i] = {Pool}
        /\ \A i \in Items : wr[s].purpose[i] # {Selected}

\* The tables as session s sees them: what its commit publishes.
View(s) == [themes |-> VThemes(s), name |-> VName(s), theme_id |-> VThemeId(s),
            purpose |-> VPurpose(s), is_trending |-> VTrending(s), col |-> VCol(s),
            article_keywords |-> VLinks(s)]

\* C16: every call inside get_db ends its transaction before control
\* returns.  Control returns only through the commit, after a body that
\* ended normally, and then everything the body wrote is committed, or
\* through the rollback, after an exception, and then nothing is; the
\* session keeps no pending write and the caller gets the result or the
\* exception the body produced.  After an exception no statement runs again
\* and the tables do not change.
C16_GetDbCommitsOrRollsBack ==
    [][/\ Snapshot' # Snapshot => \E s \in Sessions : pc[s] = "commit"
       /\ \A s \in Sessions :
          /\ (pc[s] # "returned" /\ pc'[s] = "returned") =>
                /\ wr'[s] = NoWrites
                /\ out'[s] = out[s]
                /\ \/ pc[s] = "commit" /\ out[s].kind = "return" /\ Snapshot' = View(s)
                   \/ pc[s] = "rollback" /\ out[s].kind = "raise" /\ Snapshot' = Snapshot
          /\ out[s].kind = "raise" =>
                (pc[s] \in {"rollback", "returned"} /\ Snapshot' = Snapshot
                     /\ Snapshot = pre[s])]_vars

\* A call wrote rows, then a statement raised, and the exception reached the
\* caller.
C16_Witness ==
    \E s \in Sessions :
        /\ pc[s] = "returned"
        /\ out[s].kind = "raise" /\ out[s].error = "IntegrityError"
        /\ loc[s].updated > 0
        /\ wr[s] = NoWrites

\* C20: no operation creates a theme or an article.  In every step the
\* articles are the same rows, no theme appears, and a theme disappears only
\* when a merge commits, and then it is the source of that merge.
C20_NoThemeOrArticleIsCreated ==
    [][/\ DOMAIN theme_id' = DOMAIN theme_id
       /\ themes' \subseteq themes
       /\ themes' # themes =>
             \E s \in Sessions :
                 /\ call[s].op = "merge_themes" /\ pc[s] = "commit"
                 /\ themes \ themes' = {Source(s)}]_vars

\* A merge has committed the deletion of its source; the other themes and
\* the articles are still there.
C20_Witness ==
    \E s \in Sessions :
        /\ Succeeded(s, "merge_themes")
        /\ themes = pre[s].themes \ {Source(s)}
        /\ Source(s) \in pre[s].themes
        /\ themes # {}

\* C12: rotation is idempotent.  When a rotation has returned and the same
\* rotation, run again with the same argument right after it, has returned
\* too, the 'daily-selected' items are those the first run left and the two
\* counts are equal.
C12_RotationIsIdempotent ==
    \A s \in Sessions : \A t \in Sessions :
        (s < t /\ Rotated(s) /\ Rotated(t) /\ call[t] = call[s]) =>
            /\ SelectedItems(purpose) = SelectedItems(pre[t].purpose)
            /\ out[t].count = out[s].count

\* The second run had items to reset and to select again, and there were
\* other selected items before the first.
C12_Witness ==
    \E s \in Sessions : \E t \in Sessions :
        /\ s < t /\ Rotated(s) /\ Rotated(t) /\ call[t] = call[s]
        /\ SelectedItems(pre[t].purpose) # {}
        /\ SelectedItems(pre[s].purpose) \ SelectedItems(pre[t].purpose) # {}
        /\ out[t].count > 0

\* C15: two rotations with different requests that run concurrently are not
\* serializable.  When both have returned, every selected item is an item
\* of one of the two requests; and the selected items are not all items of
\* one request (as they are after either serial order) only if both calls
\* started from the same committed tags, neither after the other's commit
\* had changed them.
C15_ConcurrentRotationsMixRequests ==
    \A s \in Sessions : \A t \in Sessions \ {s} :
        (Rotated(s) /\ Rotated(t)) =>
            SelectedItems(purpose) \subseteq Requested(s) \cup Requested(t)

\* Both rotations have committed, and items of both requests that are not
\* items of the other are selected: what neither serial order leaves.
C15_Witness ==
    \E s \in Sessions : \E t \in Sessions \ {s} :
        /\ Rotated(s) /\ Rotated(t)
        /\ call[s] # call[t]
        /\ SelectedItems(purpose) \cap (Requested(s) \ Requested(t)) # {}
        /\ SelectedItems(purpose) \cap (Requested(t) \ Requested(s)) # {}

\* A find_similar_themes call that has returned its list.
FoundSimilar(s) == Ended(s, "find_similar_themes") /\ out[s].kind = "return"
\* The name has no token: every character of it is whitespace.
Blank(str) == \A k \in 1..Len(str) : isspace(str[k])
\* The first token of a name that is not blank: from its first character
\* that is not whitespace up to the next whitespace or the end.
FirstToken(str) ==
    LET first == CHOOSE k \in 1..Len(str) :
                     ~isspace(str[k]) /\ \A j \in 1..(k - 1) : isspace(str[j])
        last == CHOOSE k \in first..Len(str) :
                    /\ \A j \in first..k : ~isspace(str[j])
                    /\ k = Len(str) \/ isspace(str[k + 1])
    IN SubSeq(str, first, last)
\* str contains token, whatever the case of the letters.
Contains(str, token) ==
    \E k \in 0..(Len(str) - Len(token)) :
        \A j \in 1..Len(token) : lower(str[k + j]) = lower(token[j])

\* C17: find_similar_themes(name, exclude_id=T, limit) never returns theme T
\* and never returns more than limit rows.
C17_ExcludesTheThemeAndKeepsTheLimit ==
    \A s \in Sessions :
        FoundSimilar(s) =>
            /\ call[s].id \notin loc[s].rows
            /\ Cardinality(loc[s].rows) <= call[s].limit

\* The excluded theme's own name contains the token, as in the page's call,
\* more themes match than the limit allows, and some were returned.
C17_Witness ==
    \E s \in Sessions :
        /\ FoundSimilar(s)
        /\ call[s].id \in themes
        /\ ~Blank(call[s].name)
        /\ Contains(name[call[s].id], FirstToken(call[s].name))
        /\ loc[s].rows # {}
        /\ Cardinality({t \in themes \ {call[s].id} :
                           Contains(name[t], FirstToken(call[s].name))}) > call[s].limit

\* The themes other than the excluded one whose name contains the first
\* token of the name asked about.
Containing(s) ==
    {t \in themes \ {call[s].id} : Contains(name[t], FirstToken(call[s].name))}

\* C18: every theme find_similar_themes returns has a name that contains
\* the first token of the name asked about (case-insensitively), and when
\* fewer than limit themes other than the excluded one contain it, all of
\* them are returned.
C18_ReturnsThemesContainingTheFirstToken ==
    \A s \in Sessions :
        (FoundSimilar(s) /\ ~Blank(call[s].name)) =>
            /\ loc[s].rows \subseteq Containing(s)
            /\ Cardinality(Containing(s)) < call[s].limit => Containing(s) \subseteq loc[s].rows

\* C19: find_similar_themes returns an empty list, and issues no query,
\* when the name has no tokens (the empty string or whitespace only).
C19_BlankNameReturnsEmptyWithoutQuery ==
    \A s \in Sessions :
        (pc[s] \in {"commit", "rollback", "returned"} /\ call[s].op = "find_similar_themes"
             /\ Blank(call[s].name)) =>
            /\ loc[s].rows = {}
            /\ loc[s].queries = 0
            /\ pc[s] = "returned" => \/ out[s] = Return(TRUE, "", 0)
                                     \/ out[s] = Raise("StorageFailure")

\* A call with a name of whitespace only has returned, with a limit and
\* themes that a query would have matched.
C19_Witness ==
    \E s \in Sessions :
        /\ FoundSimilar(s)
        /\ Blank(call[s].name) /\ call[s].name # <<>>
        /\ call[s].limit > 0
        /\ loc[s].rows = {} /\ loc[s].queries = 0

\* The rows of news_themes that are marked trending.
Trending(flags) == {t \in NewsThemes : flags[t]}

\* C21: once save_trending_themes(ids) has completed, the themes marked
\* trending are exactly the rows whose id is in ids -- in the session when
\* the function returns and in the table when the call has ended: a theme
\* that was trending and is not in ids is unmarked, an id of no row marks
\* nothing, and with no ids no theme is trending.
C21_TrendingIsExactlyTheIdsGiven ==
    \A s \in Sessions :
        /\ (pc[s] = "commit" /\ call[s].op = "save_trending_themes")
               => Trending(VTrending(s)) = call[s].ids \cap NewsThemes
        /\ Succeeded(s, "save_trending_themes")
               => /\ Trending(is_trending) = call[s].ids \cap NewsThemes
                  /\ Trending(pre[s].is_trending) \ call[s].ids
                         \subseteq NewsThemes \ Trending(is_trending)
                  /\ call[s].ids = {} => Trending(is_trending) = {}

\* A save has ended that unmarked a trending theme, marked a new one and was
\* handed an id of no row.
C21_Witness ==
    \E s \in Sessions :
        /\ Succeeded(s, "save_trending_themes")
        /\ Trending(pre[s].is_trending) \ call[s].ids # {}
        /\ Trending(is_trending) \ Trending(pre[s].is_trending) # {}
        /\ call[s].ids \ NewsThemes # {}

\* C22: the dashboard never asks for a self-merge.  The targets the themes
\* page and the main page offer come from find_similar_themes called with
\* exclude_id = the id of the theme shown, so the list of a page run does not
\* hold that theme and in every merge_themes call a page issues the target
\* differs from the source.
C22_NoSelfMergeFromThePages ==
    /\ page.theme_id \notin page.similar
    /\ \A b \in page.buttons : b[1] # b[2]
    /\ \A s \in Sessions :
           call[s].op = "merge_themes" => Source(s) # Target(s) /\ Source(s) = page.theme_id

\* A page has called merge_themes for a suggested theme and the merge has
\* succeeded.
C22_Witness ==
    \E s \in Sessions :
        /\ page.at \in {"merging_themes", "merging_app"}
        /\ Succeeded(s, "merge_themes")
        /\ Target(s) \in page.similar

\* C23: the articles_moved count ContentService.merge_themes reports equals
\* the number of article rows ThemeRepository.merge_themes reassigned, also
\* when another session moves an article into or out of the source theme
\* between the service's count and the repository's update.
C23_ArticlesMovedIsRowsReassigned ==
    \A s \in Sessions :
        (/\ call[s].op = "merge_themes"
         /\ pc[s] \in {"commit", "returned"}
         /\ out[s].kind = "return" /\ out[s].success)
            => out[s].count = loc[s].updated

\* The single-row updates of ContentService, the rows each addresses and its
\* answer for an id of no row.
RowUpdates == {"update_theme_name", "update_article", "update_definition",
               "update_keyword", "update_question"}
RowsOf(op) ==
    CASE op = "update_theme_name" -> themes
      [] op = "update_article" -> Articles
      [] op \in {"update_definition", "update_keyword"} -> Keywords
      [] op = "update_question" -> Mcqs
NotFound(op) ==
    CASE op = "update_theme_name" -> "Theme not found"
      [] op = "update_article" -> "Article not found"
      [] op \in {"update_definition", "update_keyword"} -> "Keyword not found"
      [] op = "update_question" -> "Question not found"
\* The call of session s was handed the id of a row that did not exist.
OfNoRow(s) ==
    /\ call[s].op \in RowUpdates
    /\ call[s].id \notin (IF call[s].op = "update_theme_name" THEN pre[s].themes
                          ELSE RowsOf(call[s].op))

\* C24: every single-row update of ContentService (update_theme_name,
\* update_article, update_definition, update_keyword, update_question) that
\* is called with the id of a row that does not exist writes nothing in its
\* session, changes no row of any table, and -- unless the storage layer
\* fails -- returns success = false with the error message of its table.
C24_UpdateOfNoRowFailsAndChangesNothing ==
    \A s \in Sessions :
        OfNoRow(s) =>
            /\ wr[s] = NoWrites
            /\ Snapshot = pre[s]
            /\ out[s].kind = "return"
                   => ~out[s].success /\ out[s].error = NotFound(call[s].op)
            /\ pc[s] = "returned" => out[s].kind = "raise" \/ out[s].error # ""

\* Each of the five updates has been called with the id of no row and has
\* returned its answer; here the last of them.
C24_Witness ==
    \E s \in Sessions :
        /\ OfNoRow(s) /\ Ended(s, "update_question")
        /\ out[s].kind = "return" /\ ~out[s].success
        /\ col[<<"glossary", 1, "definition">>] = "v1"
        /\ col[<<"current_affairs", 1, "heading">>] = "v1"
        /\ name[1] = <<"b">>

\* What update_article(id, updates) is to leave in article a, given the
\* columns and the references before it.
ArticleColumnsAfter(s, cols) ==
    [c \in Columns |->
        IF /\ c[1] = "current_affairs" /\ c[2] = call[s].id
           /\ c[3] \in DOMAIN call[s].updates \cap allowed_fields
        THEN call[s].updates[c[3]] ELSE cols[c]]
ArticleThemesAfter(s, refs) ==
    [a \in Articles |->
        IF a = call[s].id /\ "theme_id" \in DOMAIN call[s].updates
        THEN call[s].updates["theme_id"] ELSE refs[a]]

\* C25: update_article changes only the article addressed and only the
\* fields of its allow-list that updates names: such a field gets the value
\* given, a key outside the allow-list (id, date) is ignored, every other
\* field and every other article keeps its value, and so does every other
\* table -- in the session while the call runs and in the tables once it has
\* succeeded.
C25_OnlyAllowedFieldsOfTheArticleChange ==
    \A s \in Sessions :
        call[s].op = "update_article" =>
            /\ pc[s] \in {"commit", "returned"} /\ out[s].kind = "return" /\ out[s].success
                   => View(s) = [pre[s] EXCEPT !.col = ArticleColumnsAfter(s, @),
                                               !.theme_id = ArticleThemesAfter(s, @)]
            /\ \A c \in Columns : wr[s].col[c] # {} =>
                   /\ c[1] = "current_affairs" /\ c[2] = call[s].id
                   /\ c[3] \in allowed_fields
            /\ \A a \in Articles : wr[s].theme_id[a] # {} => a = call[s].id

\* An update has succeeded that named a field of the allow-list, with a new
\* value, next to the keys id and date, on an article other than the one the
\* id key names, while another article held a changed heading.
C25_Witness ==
    \E s \in Sessions :
        /\ Succeeded(s, "update_article")
        /\ DOMAIN call[s].updates = ArticleUpdateKeys
        /\ call[s].id # call[s].updates["id"]
        /\ col[<<"current_affairs", call[s].id, "heading">>]
               # pre[s].col[<<"current_affairs", call[s].id, "heading">>]
        /\ \E a \in Articles \ {call[s].id} : col[<<"current_affairs", a, "heading">>] = "v1"

\* What update_question(id, updates) is to leave in the columns.
QuestionColumnsAfter(s, cols) ==
    [c \in Columns |->
        IF /\ c[1] = "mcqs" /\ c[2] = call[s].id
           /\ c[3] \in DOMAIN call[s].updates \cap mcq_attributes
        THEN call[s].updates[c[3]] ELSE cols[c]]

\* C26: update_question applies exactly the keys of updates that are
\* attributes of the stored question and ignores every other key, leaving
\* all other fields, questions and tables as they were; the service reports
\* success whenever the question exists, also when no key was applied -- as
\* for a save of the questions page, whose keys all lie outside the
\* question's attributes: it changes nothing and reports success.
C26_OnlyAttributesOfTheQuestionAreSet ==
    \A s \in Sessions :
        (call[s].op = "update_question" /\ pc[s] \in {"commit", "returned"}
         /\ out[s].kind = "return") =>
            /\ out[s].success <=> call[s].id \in Mcqs
            /\ View(s) = [pre[s] EXCEPT !.col = QuestionColumnsAfter(s, @)]
            /\ out[s].success =>
                   loc[s].updated = Cardinality(DOMAIN call[s].updates \cap mcq_attributes)
            /\ DOMAIN call[s].updates \subseteq PageQuestionKeys => View(s) = pre[s]

\* A save with keys of the questions page only has succeeded, with no key
\* applied, on a question whose text an earlier update had changed.
C26_Witness ==
    \E s \in Sessions :
        /\ Succeeded(s, "update_question")
        /\ call[s].updates # <<>>
        /\ DOMAIN call[s].updates \subseteq PageQuestionKeys
        /\ loc[s].updated = 0
        /\ col[<<"mcqs", call[s].id, "question_text">>] = "v1"
        /\ \E q \in Mcqs : col[<<"mcqs", q, "question_text">>] = "v0"

\* C27: on the trending page the save button is enabled only while exactly 5
\* themes are selected, so every save_trending_themes call the page issues
\* carries exactly 5 ids, and after any sequence of toggles, clears and
\* saves through the page at most 5 themes are marked trending in the
\* committed table.
C27_SavesCarryFiveIdsAndAtMostFiveTrend ==
    /\ page.save_enabled
           => Cardinality(session_state.selected_trending) = TrendingQuota
    /\ \A s \in Sessions :
           call[s].op = "save_trending_themes"
               => Cardinality(call[s].ids) = TrendingQuota
    /\ Cardinality(Trending(is_trending)) <= TrendingQuota

\* A second save has succeeded, with a selection other than the themes that
\* were trending, reached by toggles from the pre-selection of a new browser
\* session.
C27_Witness ==
    \E s \in Sessions :
        /\ page.at = "trending_saving"
        /\ Succeeded(s, "save_trending_themes")
        /\ Cardinality(Trending(pre[s].is_trending)) = TrendingQuota
        /\ Trending(is_trending) # Trending(pre[s].is_trending)
        /\ Cardinality(Trending(is_trending)) = TrendingQuota

\* The link a call names.
LinkOf(s) == <<call[s].id, call[s].ref>>

\* C28: remove_keyword_from_article(article, keyword) reports success
\* exactly when the link existed before; afterwards the link does not exist
\* and every other link, every glossary row and every other table is as
\* before.  Removing a link right after adding it to an article that did not
\* have it succeeds and restores the links there were before the add.
C28_RemoveDeletesExactlyTheLink ==
    /\ \A s \in Sessions :
           (Ended(s, "remove_keyword_from_article") /\ out[s].kind = "return") =>
               /\ out[s].success <=> LinkOf(s) \in pre[s].article_keywords
               /\ LinkOf(s) \notin article_keywords
               /\ Snapshot = [pre[s] EXCEPT !.article_keywords = @ \ {LinkOf(s)}]
    /\ \A s, t \in Sessions :
           (/\ s < t /\ Succeeded(s, "add_keyword_to_article")
            /\ Ended(t, "remove_keyword_from_article") /\ out[t].kind = "return") =>
               /\ LinkOf(t) = LinkOf(s)
               /\ LinkOf(s) \notin pre[s].article_keywords
               /\ out[t].success
               /\ Snapshot = pre[s]

\* A link has been added to an article that had another article's keyword
\* beside it, and removed again.
C28_Witness ==
    \E s, t \in Sessions :
        /\ s < t /\ Succeeded(s, "add_keyword_to_article")
        /\ Succeeded(t, "remove_keyword_from_article")
        /\ article_keywords # {} /\ LinkOf(t) \notin article_keywords
        /\ pre[t].article_keywords = article_keywords \cup {LinkOf(t)}
        /\ pre[s].article_keywords = article_keywords

\* C29: in every run of a list page the current page number lies within
\* 1..total_pages, with total_pages = max(1, ceil(total_items / page_size));
\* Previous is disabled on page 1 and Next on the last page; and this holds
\* after any sequence of Previous and Next clicks, filter changes and search
\* changes that alter total_items.
C29_CurrentPageWithinTotalPages ==
    page.screen = "list" =>
        /\ page.total_pages = TotalPages(page.total_items, DEFAULT_PAGE_SIZE)
        /\ page.current_page = session_state.current_page
        /\ page.current_page \in 1..page.total_pages
        /\ page.current_page = 1 => ~page.previous_enabled
        /\ page.current_page = page.total_pages => ~page.next_enabled

\* C30: a flash message is shown exactly once. Every run displays exactly the
\* messages that were pending when it started (the message set by the run
\* before it, which is therefore not lost), and after the run the only pending
\* message is the one its own handler set: what was displayed is cleared, so
\* later runs display nothing until a new message is set.
C30_FlashMessageShownExactlyOnce ==
    [][/\ page'.shown = [success |-> session_state.success_message,
                         error |-> session_state.error_message]
       /\ session_state'.success_message =
              IF page'.clicked[1] = "success" THEN {page'.clicked[2]} ELSE {}
       /\ session_state'.error_message =
              IF page'.clicked[1] = "error" THEN {page'.clicked[2]} ELSE {}]_vars

\* A run displayed the message the run before it had set, set none itself and
\* left nothing pending.
C30_Witness ==
    /\ page.at \in FlashScripts
    /\ page.clicked[1] = "none"
    /\ page.shown.success # {}
    /\ page.shown.error = {}
    /\ session_state.success_message = {}
    /\ session_state.error_message = {}

====
